---- MODULE Spec2Model ----
(***************************************************************************)
(* Model of the GPS-denied precision landing system (raltun1/homing).      *)
(*                                                                         *)
(* Units.  Time is counted in whole seconds (the value time.time()         *)
(* returns, which is never 0 on a running system).  Altitude is counted    *)
(* in centimetres, the unit of the MSP_ALTITUDE payload; request_altitude  *)
(* divides by 100.0, so a threshold of 0.8 m is 80 and 0.1 m is 10.         *)
(***************************************************************************)
EXTENDS Integers, Sequences, FiniteSets, TLC

\* ------------------------------------------------------------------------
\* Bounds of the model
\* ------------------------------------------------------------------------
\* the state machine alone: last clock reading
MaxTime == 7
\* the state machine as main() uses it: last clock reading
MaxRecoveryTime == 8
\* the control loop: last clock reading
MaxLoopTime == 3
\* the control loop through a flight: last clock reading
MaxFlightTime == 6
\* the engine: frames written (by its callers, by the control loop) and
\* errors counted before the callers stop
MaxTx == 3
MaxErrors == 2
\* a controller on its own: last clock reading and compute() calls made
\* on one controller
MaxPidTime == 2
MaxComputes == 2
\* the checksum on its own: length of the byte sequences it is computed for
MaxCrcLen == 2
\* frames on their own: length of the short payloads of the frames built
MaxPayloadLen == 2
\* the state machine under its lock: last clock reading
MaxSmTime == 6

\* ------------------------------------------------------------------------
\* Program constants
\* ------------------------------------------------------------------------
\* config.py LASER_DETECTION_TIME = 2.0 (seconds)
LASER_DETECTION_TIME == 2
\* config.py LASER_LOST_TIMEOUT = 3.0 (seconds)
LASER_LOST_TIMEOUT == 3
\* config.py LANDING_THRESHOLD_HEIGHT = 0.8 (metres) in centimetres
LANDING_THRESHOLD_HEIGHT == 80
\* state_machine.py: "if self._altitude <= 0.1" (metres) in centimetres
TOUCHDOWN_HEIGHT == 10

\* config.py PRECISION_START_HEIGHT = 15.0 (metres) in centimetres
PRECISION_START_HEIGHT == 1500
\* config.py CAMERA_RES_X, CAMERA_RES_Y
CAMERA_RES_X == 1456
CAMERA_RES_Y == 1088
\* config.py / msp_protocol.py RC_MIN, RC_MAX, RC_MID; config.py RC_RANGE
RC_MIN == 1000
RC_MAX == 2000
RC_MID == 1500
RC_RANGE == 300

\* Controller outputs and errors are real numbers in the code; here they are
\* integers counting 1/OUT_SCALE, the resolution in which the descent
\* schedule of the control loop is exact for every altitude in centimetres.
OUT_SCALE == 12000
\* Gains count 1/GAIN_SCALE: config.py PID_KP = 0.1, PID_KI = 0.0, PID_KD = 0.0
GAIN_SCALE == 1000
PID_KP == 100
PID_KI == 0
PID_KD == 0
\* config.py MAX_DESCENT_SPEED = 0.25 and MIN_DESCENT_SPEED = 0.08, in 1/OUT_SCALE
MAX_DESCENT_SPEED == 3000
MIN_DESCENT_SPEED == 960

\* class SystemState
SystemState == {"IDLE", "SEARCHING", "TRACKING", "APPROACH", "LANDING", "LOST", "COMPLETE"}

\* Python's None for an Optional[Tuple[int, int]]
None == <<>>

\* Pixel positions update() is called with (the frame centre and a corner)
Positions == {<<728, 544>>, <<0, 0>>}

\* Altitudes update() is called with, in centimetres: both sides of the
\* touchdown threshold and of the landing threshold
Altitudes == {10, 11, 80, 81}

\* Positions the detector reports to the control loop: a point left of the
\* centre whose normalised error is no multiple of 1/OUT_SCALE, a quarter of
\* the frame above the centre
LoopPositions == {<<97, 272>>}

\* What request_altitude() returns to the telemetry loop, in centimetres:
\* the 10.0 m of the simulation engine (msp_protocol.py lines 526-527)
LoopAltitudes == {1000}

\* An Optional value that is not None
Some(v) == <<v>>

\* What request_status() returns to the telemetry loop, the first
\* component: the (False, "DISARMED") of the simulation engine (lines
\* 548-549)
LoopStatuses == {Some(FALSE)}

\* send_rc_override on its own: values for roll, pitch, throttle and yaw
\* (below, at and above the limits) and for aux1..aux4
RcInputs == {-5, 999, 1000, 2000, 2001}
YawInputs == {1500, 65536}

\* a controller on its own: error and measurement of a compute() call
\* (in 1/OUT_SCALE), and the arguments of the setters (gains in
\* 1/GAIN_SCALE, limits and integral limit in 1/OUT_SCALE, sample time in ms)
PidInputs == {<<-12000, None>>, <<6000, Some(-3000)>>, <<24000, Some(3000)>>}
GainUpdates == {<<None, Some(0), None>>, <<Some(3000), Some(0), Some(0)>>}
LimitUpdates == {<<-3000, 6000>>, <<6000, -3000>>}
IntegralMaxUpdates == {-240}
SampleTimeUpdates == {200, 0}

\* the descent schedule on its own: altitudes in centimetres, around the
\* landing threshold and the precision-start height and in between
ScheduleAltitudes == {0, 10, 80, 81, 400, 790, 1000, 1499, 1500, 1501, 2000}
AuxInputs == {<<1500, 1500, 1500, 1500>>, <<900, 2100, 1000, 2000>>,
              <<70000, -1, 1234, 1999>>}

VARIABLES
    now,                \* time.time(), in seconds
    state,              \* StateMachine._state
    prev_state,         \* StateMachine._prev_state
    laser_first_seen,   \* StateMachine._laser_first_seen (0 = never)
    laser_last_seen,    \* StateMachine._laser_last_seen (0 = never)
    state_enter_time,   \* StateMachine._state_enter_time
    laser_position,     \* StateMachine._laser_position
    altitude,           \* StateMachine._altitude
    changes,            \* the (old, new) pairs _change_state made in the last operation
    lastOp,             \* the last operation completed on the state machine
    opFrom,             \* the phase in which the last operation started
    opArgs,             \* the arguments and clock reading of the last update()
    run,                \* history of the updates since the last enable() from IDLE
    track,              \* history of the updates since the machine last entered TRACKING
    on_state_change,    \* _on_state_change: None, or the registered handler
    calls,              \* the handler invocations of the last operation, in order
    ctl_pc,             \* control_loop: the section of the iteration to run next
    laser_pos,          \* control_loop local laser_pos
    current_alt,        \* control_loop local current_alt
    current_state,      \* control_loop local current_state
    roll_output,        \* control_loop local roll_output, in 1/OUT_SCALE
    pitch_output,       \* control_loop local pitch_output, in 1/OUT_SCALE
    throttle_output,    \* control_loop local throttle_output, in 1/OUT_SCALE
    last_laser_time,    \* control_loop local last_laser_time
    pid_x,              \* main.pid_x
    pid_y,              \* main.pid_y
    telemetry_data,     \* main.telemetry_data
    sent,               \* the RC override frames the current iteration transmitted
    op_pc,              \* toggle_enable: the statement to run next
    op_state,           \* toggle_enable local current_state
    tel_pc,             \* telemetry_loop: the statement of the iteration to run next
    tel_altitude,       \* telemetry_loop local altitude, in centimetres
    tel_armed,          \* telemetry_loop local armed
    lock,               \* MSPProtocol._lock: the caller that holds it, or "free"
    eng_pc,             \* per caller: where it is inside the engine
    eng_op,             \* per caller: the engine operation it is in, or "none"
    eng_next,           \* per caller: number of operations it has started
    eng_took,           \* per caller: its _send_frame entered "with self._lock"
    eng_frame,          \* per caller: the channel values of the frame it sends
    eng_result,         \* per caller: what its last operation returned
    tx_count,           \* MSPProtocol._tx_count
    rx_count,           \* MSPProtocol._rx_count
    error_count,        \* MSPProtocol._error_count
    last_rc_channels,   \* MSPProtocol._last_rc_channels
    rc_args,            \* send_rc_override: the eight arguments of the last call
    rc_payload,         \* send_rc_override: the payload bytes of the last call
    descent_calls,      \* the altitudes and descent rates of the last two schedules
    ctrl_args,          \* a PIDController: the arguments it was constructed with
    ctrl,               \* a PIDController: its attributes
    ctrl_call,          \* a PIDController: its last compute() call
    crc_calls,          \* the inputs and values of the last two checksums computed
    frame_call,         \* _build_msp_v2_frame: the arguments and the frame of the last call
    resp_call,          \* _parse_msp_v2_response: the bytes received and the outcome of the last call
    tel_call,           \* telemetry_loop: the last iteration, with the snapshot before and after it
    camera_frame,       \* control_loop local frame, from capture until update(): "frame" or "none"
    ctrl_set,           \* a PIDController: the setter call just made on it, with the controller before and after
    sm_lock,            \* StateMachine._lock: "free" or the thread that holds it
    sm_pc,              \* per thread: where its call on the state machine stands
    sm_op,              \* per thread: the call it is making on the state machine
    par_steps,          \* set_param: the set_gains calls the request in progress has still to make
    axis_pc,            \* control_loop, section 3: the compute() call to make next, "roll" or "pitch"
    axis_gains          \* the (Kp, Ki, Kd) the compute() calls of the iteration ran with, roll first

fsmVars == <<state, prev_state, laser_first_seen, laser_last_seen,
             state_enter_time, laser_position, altitude, on_state_change>>
histVars == <<changes, lastOp, opFrom, opArgs, run, track, calls>>
telLocals == <<tel_pc, tel_altitude, tel_armed>>
loopVars == <<ctl_pc, laser_pos, current_alt, current_state, roll_output,
              pitch_output, throttle_output, last_laser_time, pid_x, pid_y,
              telemetry_data, sent, op_pc, op_state, telLocals>>
engineVars == <<lock, eng_pc, eng_op, eng_next, eng_took, eng_frame, eng_result,
                tx_count, rx_count, error_count, last_rc_channels>>
codecVars == <<rc_args, rc_payload>>
scheduleVars == <<descent_calls>>
pidVars == <<ctrl_args, ctrl, ctrl_call>>
wireVars == <<crc_calls, frame_call, resp_call>>
snapshotVars == <<tel_call>>
cameraVars == <<camera_frame>>
setterVars == <<ctrl_set>>
smLockVars == <<sm_lock, sm_pc, sm_op>>
gainVars == <<par_steps, axis_pc, axis_gains>>
concVars == <<smLockVars, gainVars>>
unitVars == <<codecVars, scheduleVars, pidVars, wireVars, snapshotVars, cameraVars,
              setterVars, concVars>>
vars == <<now, fsmVars, histVars, loopVars, engineVars, unitVars>>

\* ------------------------------------------------------------------------
\* StateMachine (state_machine.py)
\* ------------------------------------------------------------------------

\* The machine as one value, so that the methods compose as in the code
Machine ==
    [state |-> state, prev_state |-> prev_state,
     laser_first_seen |-> laser_first_seen, laser_last_seen |-> laser_last_seen,
     state_enter_time |-> state_enter_time, laser_position |-> laser_position,
     altitude |-> altitude, on_state_change |-> on_state_change,
     changes |-> <<>>, calls |-> <<>>]

\* StateMachine.__init__
NewMachine ==
    [state |-> "IDLE", prev_state |-> "IDLE",
     laser_first_seen |-> 0, laser_last_seen |-> 0,
     state_enter_time |-> 0, laser_position |-> None,
     altitude |-> 0, on_state_change |-> None,
     changes |-> <<>>, calls |-> <<>>]

\* The handlers a caller may register: one that returns and one that
\* raises an Exception
Handlers == {"returns", "raises"}

\* Handlers that call a method of the same machine: each of these methods
\* starts with "with self._lock"
ReentrantHandlers ==
    {"calls_get_state", "calls_get_state_name", "calls_enable", "calls_disable",
     "calls_update"}

\* calling a handler with (old, new): it returns, it raises, or it calls
\* back into the machine
invoke(handler, old_state, new_state) ==
    IF handler = "raises" THEN "raised"
    ELSE IF handler \in ReentrantHandlers THEN "reenters"
    ELSE "returned"

\* the last handler call of m is inside a method of the machine, at its
\* "with self._lock"
Waiting(m) ==
    /\ m.calls # <<>>
    /\ m.calls[Len(m.calls)].outcome = "waiting"

\* StateMachine._change_state, the callback part: the handler, if one is
\* registered, is called with (old, new) inside try/except Exception, so
\* an exception ends the call and nothing else
notify(m, old_state, new_state) ==
    IF m.on_state_change = None
    THEN m
    ELSE [m EXCEPT !.calls =
              Append(@, [old |-> old_state, new |-> new_state,
                         outcome |->
                             CASE invoke(m.on_state_change[1], old_state,
                                         new_state) = "raised" -> "caught"
                               [] invoke(m.on_state_change[1], old_state,
                                         new_state) = "reenters" -> "waiting"
                               [] OTHER -> "returned"])]

\* _change_state without the early return for an unchanged phase
change_state_always(m, new_state, t) ==
    notify([m EXCEPT !.prev_state = m.state,
                     !.state = new_state,
                     !.state_enter_time = t,
                     !.changes = IF new_state = m.state
                                 THEN @
                                 ELSE Append(@, <<m.state, new_state>>)],
           m.state, new_state)

\* StateMachine._change_state
change_state(m, new_state, t) ==
    IF new_state = m.state
    THEN m
    ELSE notify([m EXCEPT !.prev_state = m.state,
                          !.state = new_state,
                          !.state_enter_time = t,
                          !.changes = Append(@, <<m.state, new_state>>)],
                m.state, new_state)

\* StateMachine._reset_timers
reset_timers(m) ==
    [m EXCEPT !.laser_first_seen = 0,
              !.laser_last_seen = 0,
              !.laser_position = None]

\* enable() that restarts the search from any phase
enable_restarts(m, t) == change_state(reset_timers(m), "SEARCHING", t)

\* StateMachine.enable
enable(m, t) ==
    IF m.state = "IDLE"
    THEN change_state(reset_timers(m), "SEARCHING", t)
    ELSE m

\* disable() that forgets to clear the timers and the stored position
disable_keeps_timers(m, t) == change_state(m, "IDLE", t)

\* StateMachine.disable
disable(m, t) == change_state(reset_timers(m), "IDLE", t)

\* StateMachine._process_state, LANDING branch, the first if (lines
\* 345-347): touchdown
landing_touchdown(m, t) ==
    IF m.altitude <= TOUCHDOWN_HEIGHT
    THEN change_state(m, "COMPLETE", t)
    ELSE m

\* StateMachine._process_state, LANDING branch, the second if (lines
\* 350-354): t_now is the "now" update() read at its start, t the clock
\* reading _change_state takes
landing_lost(m, laser_detected, t_now, t) ==
    IF (~laser_detected) /\ (t_now - m.laser_last_seen >= LASER_LOST_TIMEOUT)
    THEN change_state(m, "LOST", t)
    ELSE m

\* StateMachine._process_state, LANDING branch: two independent ifs, the
\* second one evaluated after the first one's _change_state
process_landing(m, laser_detected, t) ==
    landing_lost(landing_touchdown(m, t), laser_detected, t, t)

\* TRACKING branch that confirms only strictly after detection_time
process_tracking_strict(m, laser_detected, t) ==
    IF ~laser_detected
    THEN change_state(reset_timers(m), "SEARCHING", t)
    ELSE IF t - m.laser_first_seen > LASER_DETECTION_TIME
         THEN change_state(m, "APPROACH", t)
         ELSE m

\* StateMachine._process_state, TRACKING branch
process_tracking(m, laser_detected, t) ==
    IF ~laser_detected
    THEN change_state(reset_timers(m), "SEARCHING", t)
    ELSE IF t - m.laser_first_seen >= LASER_DETECTION_TIME
         THEN change_state(m, "APPROACH", t)
         ELSE m

\* APPROACH branch that lands only strictly below landing_height
process_approach_below(m, laser_detected, t) ==
    IF laser_detected
    THEN IF m.altitude < LANDING_THRESHOLD_HEIGHT
         THEN change_state(m, "LANDING", t)
         ELSE m
    ELSE IF t - m.laser_last_seen >= LASER_LOST_TIMEOUT
         THEN change_state(m, "LOST", t)
         ELSE m

\* APPROACH branch that declares the beacon lost only strictly after lost_timeout
process_approach_late_lost(m, laser_detected, t) ==
    IF laser_detected
    THEN IF m.altitude <= LANDING_THRESHOLD_HEIGHT
         THEN change_state(m, "LANDING", t)
         ELSE m
    ELSE IF t - m.laser_last_seen > LASER_LOST_TIMEOUT
         THEN change_state(m, "LOST", t)
         ELSE m

\* StateMachine._process_state, APPROACH branch
process_approach(m, laser_detected, t) ==
    IF laser_detected
    THEN IF m.altitude <= LANDING_THRESHOLD_HEIGHT
         THEN change_state(m, "LANDING", t)
         ELSE m
    ELSE IF t - m.laser_last_seen >= LASER_LOST_TIMEOUT
         THEN change_state(m, "LOST", t)
         ELSE m

\* a machine that keeps the old first-seen time when the beacon is found
\* again in LOST
process_state_lost_keeps_first_seen(m, laser_detected, t) ==
    CASE m.state = "IDLE" -> m
      [] m.state = "SEARCHING" ->
            IF laser_detected THEN change_state(m, "TRACKING", t) ELSE m
      [] m.state = "TRACKING" -> process_tracking(m, laser_detected, t)
      [] m.state = "APPROACH" -> process_approach(m, laser_detected, t)
      [] m.state = "LANDING" -> process_landing(m, laser_detected, t)
      [] m.state = "LOST" ->
            IF laser_detected THEN change_state(m, "TRACKING", t) ELSE m
      [] m.state = "COMPLETE" -> m

\* a machine that keeps watching the beacon in COMPLETE
process_state_complete_watches(m, laser_detected, t) ==
    CASE m.state = "IDLE" -> m
      [] m.state = "SEARCHING" ->
            IF laser_detected THEN change_state(m, "TRACKING", t) ELSE m
      [] m.state = "TRACKING" -> process_tracking(m, laser_detected, t)
      [] m.state = "APPROACH" -> process_approach(m, laser_detected, t)
      [] m.state = "LANDING" -> process_landing(m, laser_detected, t)
      [] m.state = "LOST" ->
            IF laser_detected
            THEN change_state([m EXCEPT !.laser_first_seen = t], "TRACKING", t)
            ELSE m
      [] m.state = "COMPLETE" ->
            IF (~laser_detected) /\ (t - m.laser_last_seen >= LASER_LOST_TIMEOUT)
            THEN change_state(m, "LOST", t)
            ELSE m

\* StateMachine._process_state
process_state(m, laser_detected, t) ==
    CASE m.state = "IDLE" -> m
      [] m.state = "SEARCHING" ->
            IF laser_detected THEN change_state(m, "TRACKING", t) ELSE m
      [] m.state = "TRACKING" -> process_tracking(m, laser_detected, t)
      [] m.state = "APPROACH" -> process_approach(m, laser_detected, t)
      [] m.state = "LANDING" -> process_landing(m, laser_detected, t)
      [] m.state = "LOST" ->
            IF laser_detected
            THEN change_state([m EXCEPT !.laser_first_seen = t], "TRACKING", t)
            ELSE m
      [] m.state = "COMPLETE" -> m

\* update() that stamps the last-seen time only
update_without_first_seen(m, laser_detected, position, alt, t) ==
    LET m1 == [m EXCEPT !.altitude = alt]
        m2 == IF laser_detected
              THEN [m1 EXCEPT !.laser_position = position,
                              !.laser_last_seen = t]
              ELSE [m1 EXCEPT !.laser_position = None]
    IN  process_state(m2, laser_detected, t)

\* StateMachine.update, the statements before _process_state (lines
\* 264-276)
update_values(m, laser_detected, position, alt, t) ==
    LET m1 == [m EXCEPT !.altitude = alt]
    IN  IF laser_detected
        THEN [m1 EXCEPT !.laser_position = position,
                        !.laser_last_seen = t,
                        !.laser_first_seen = IF @ = 0 THEN t ELSE @]
        ELSE [m1 EXCEPT !.laser_position = None]

\* StateMachine.update
update(m, laser_detected, position, alt, t) ==
    process_state(update_values(m, laser_detected, position, alt, t),
                  laser_detected, t)

\* The attributes of machine m become the next state
SetFields(m) ==
    /\ state' = m.state
    /\ prev_state' = m.prev_state
    /\ laser_first_seen' = m.laser_first_seen
    /\ laser_last_seen' = m.laser_last_seen
    /\ state_enter_time' = m.state_enter_time
    /\ laser_position' = m.laser_position
    /\ altitude' = m.altitude
    /\ on_state_change' = m.on_state_change

\* The attributes of machine m become the next state, with the record of
\* the phase changes and handler calls the operation made
SetMachine(m) ==
    /\ SetFields(m)
    /\ changes' = m.changes
    /\ calls' = m.calls

\* ------------------------------------------------------------------------
\* History of a run: the updates since the last enable() made in IDLE
\*   active      an enable() started the run and no disable() ended it
\*   allDetected every update() of the run reported the beacon detected
\*   updates     number of update() calls of the run (capped at 2)
\*   firstDet    clock reading of the first detected update() of the run
\*   late        number of update() calls made at least LASER_DETECTION_TIME
\*               after firstDet (capped at 2)
\* ------------------------------------------------------------------------
NoRun == [active |-> FALSE, allDetected |-> FALSE, updates |-> 0, firstDet |-> 0, late |-> 0]
NewRun == [active |-> TRUE, allDetected |-> TRUE, updates |-> 0, firstDet |-> 0, late |-> 0]

Cap2(n) == IF n >= 2 THEN 2 ELSE n

RunAfterUpdate(r, laser_detected, t) ==
    IF ~r.active THEN r
    ELSE LET fd == IF r.firstDet = 0 /\ laser_detected THEN t ELSE r.firstDet
         IN  [active |-> TRUE,
              allDetected |-> r.allDetected /\ laser_detected,
              updates |-> Cap2(r.updates + 1),
              firstDet |-> fd,
              late |-> IF fd > 0 /\ t - fd >= LASER_DETECTION_TIME
                       THEN Cap2(r.late + 1) ELSE r.late]

NoArgs == [laser_detected |-> FALSE, position |-> None, altitude |-> 0, now |-> 0]

\* History of the confirmation: the updates since the machine last entered
\* TRACKING, up to the one that leaves it (forgotten by the next operation
\* that is made outside TRACKING)
\*   entered     clock reading of the update() that entered TRACKING
\*   allDetected that update() and every update() made in TRACKING since
\*               reported the beacon detected
\*   from        the phase that update() was made in
NoTrack == [entered |-> 0, allDetected |-> FALSE, from |-> "none"]

TrackAfterUpdate(tr, from, to, laser_detected, t) ==
    IF from # "TRACKING" /\ to = "TRACKING"
    THEN [entered |-> t, allDetected |-> laser_detected, from |-> from]
    ELSE IF from = "TRACKING"
         THEN [tr EXCEPT !.allDetected = @ /\ laser_detected]
         ELSE NoTrack

\* ------------------------------------------------------------------------
\* PIDController (pid_controller.py), in integer arithmetic:
\* errors, outputs and integral bounds count 1/OUT_SCALE, gains 1/GAIN_SCALE,
\* time steps milliseconds
\* ------------------------------------------------------------------------

\* Division of a by b > 0, rounded down.  The code keeps the real quotient;
\* the only rounding it makes is int(1500 + output * RC_RANGE), of a positive
\* number.  With quotients rounded down at every step the value that int()
\* takes is that of the real number for the gains of config.py, at every
\* pixel of the frame.
Div(a, b) == a \div b

Min(a, b) == IF a <= b THEN a ELSE b
Max(a, b) == IF a >= b THEN a ELSE b

\* PIDController._clamp
clamp(value, min_val, max_val) == Max(min_val, Min(max_val, value))

\* PIDController.__init__ (lines 52-118): args holds kp, ki, kd, output_min,
\* output_max, integral_max (None when not given), sample_time (None when
\* not given) and reverse; "integral_max if integral_max else
\* abs(output_max)" also replaces an integral_max of 0
PIDController(args) ==
    [kp |-> args.kp, ki |-> args.ki, kd |-> args.kd,
     output_min |-> args.output_min, output_max |-> args.output_max,
     integral_max |-> IF args.integral_max # None /\ args.integral_max # Some(0)
                      THEN args.integral_max[1]
                      ELSE IF args.output_max >= 0 THEN args.output_max
                                                   ELSE -args.output_max,
     sample_time |-> args.sample_time, reverse |-> args.reverse,
     integral |-> 0, prev_error |-> 0, prev_measurement |-> None,
     last_time |-> None, first_run |-> TRUE]

\* the arguments main() constructs pid_x and pid_y with (main.py:786-796)
MainArgs ==
    [kp |-> PID_KP, ki |-> PID_KI, kd |-> PID_KD,
     output_min |-> -OUT_SCALE, output_max |-> OUT_SCALE,
     integral_max |-> None, sample_time |-> None, reverse |-> FALSE]

\* arguments a controller is constructed with: as main() does, with all
\* three terms and an integral limit and sample time of its own,
\* reversed with asymmetric limits, and with a negative integral limit,
\* which the constructor takes as it is
CtrlArgs ==
    {MainArgs,
     [kp |-> 0, ki |-> 500, kd |-> 0,
      output_min |-> -OUT_SCALE, output_max |-> OUT_SCALE,
      integral_max |-> Some(-600), sample_time |-> None, reverse |-> FALSE],
     [kp |-> 1000, ki |-> 500, kd |-> 10,
      output_min |-> -OUT_SCALE, output_max |-> OUT_SCALE,
      integral_max |-> Some(600), sample_time |-> Some(100), reverse |-> FALSE],
     [kp |-> 2000, ki |-> 0, kd |-> 0,
      output_min |-> -3000, output_max |-> 6000,
      integral_max |-> None, sample_time |-> None, reverse |-> TRUE]}

\* PIDController.__init__ as main() calls it: gains from config.py,
\* output_min = -1.0, output_max = 1.0, integral_max = abs(output_max),
\* sample_time = None, reverse = False
NewPID ==
    [kp |-> PID_KP, ki |-> PID_KI, kd |-> PID_KD,
     output_min |-> -OUT_SCALE, output_max |-> OUT_SCALE,
     integral_max |-> OUT_SCALE, sample_time |-> None, reverse |-> FALSE,
     integral |-> 0, prev_error |-> 0, prev_measurement |-> None,
     last_time |-> None, first_run |-> TRUE]

\* PIDController.compute: the time step in milliseconds (50 ms on a first
\* call without sample_time, 1 ms when the clock did not advance)
pid_dt(pid, t) ==
    IF pid.last_time = None
    THEN IF pid.sample_time # None /\ pid.sample_time # Some(0)
         THEN pid.sample_time[1] ELSE 50
    ELSE IF t - pid.last_time[1] <= 0 THEN 1 ELSE 1000 * (t - pid.last_time[1])

\* a compute that does not look at the reverse flag
pid_compute_ignores_reverse(pid, err, measurement, t) ==
    LET dt == pid_dt(pid, t)
        first == IF pid.last_time = None THEN TRUE ELSE pid.first_run
        error == err
        p_term == Div(pid.kp * error, GAIN_SCALE)
        integral == IF pid.ki # 0
                    THEN clamp(pid.integral + Div(error * dt, 1000),
                               -pid.integral_max, pid.integral_max)
                    ELSE pid.integral
        i_term == Div(pid.ki * integral, GAIN_SCALE)
        d_error == IF measurement # None /\ pid.prev_measurement # None
                   THEN -Div((measurement[1] - pid.prev_measurement[1]) * 1000, dt)
                   ELSE Div((error - pid.prev_error) * 1000, dt)
        d_term == IF pid.kd # 0 /\ ~first
                  THEN Div(pid.kd * d_error, GAIN_SCALE)
                  ELSE 0
    IN  [pid |-> [pid EXCEPT !.last_time = Some(t),
                             !.integral = integral,
                             !.prev_error = error,
                             !.prev_measurement =
                                 IF measurement # None THEN measurement ELSE @,
                             !.first_run = FALSE],
         output |-> clamp(p_term + i_term + d_term, pid.output_min, pid.output_max)]

\* PIDController.compute: the controller after the call and the value returned
pid_compute(pid, err, measurement, t) ==
    LET dt == pid_dt(pid, t)
        first == IF pid.last_time = None THEN TRUE ELSE pid.first_run
        error == IF pid.reverse THEN -err ELSE err
        p_term == Div(pid.kp * error, GAIN_SCALE)
        integral == IF pid.ki # 0
                    THEN clamp(pid.integral + Div(error * dt, 1000),
                               -pid.integral_max, pid.integral_max)
                    ELSE pid.integral
        i_term == Div(pid.ki * integral, GAIN_SCALE)
        d_error == IF measurement # None /\ pid.prev_measurement # None
                   THEN -Div((measurement[1] - pid.prev_measurement[1]) * 1000, dt)
                   ELSE Div((error - pid.prev_error) * 1000, dt)
        d_term == IF pid.kd # 0 /\ ~first
                  THEN Div(pid.kd * d_error, GAIN_SCALE)
                  ELSE 0
    IN  [pid |-> [pid EXCEPT !.last_time = Some(t),
                             !.integral = integral,
                             !.prev_error = error,
                             !.prev_measurement =
                                 IF measurement # None THEN measurement ELSE @,
                             !.first_run = FALSE],
         output |-> clamp(p_term + i_term + d_term, pid.output_min, pid.output_max)]

\* a reset that forgets to clear the timestamp
pid_reset_keeps_time(pid) ==
    [pid EXCEPT !.integral = 0, !.prev_error = 0, !.prev_measurement = None,
                !.first_run = TRUE]

\* PIDController.reset
pid_reset(pid) ==
    [pid EXCEPT !.integral = 0, !.prev_error = 0, !.prev_measurement = None,
                !.last_time = None, !.first_run = TRUE]

\* PIDController.reset_integral
pid_reset_integral(pid) == [pid EXCEPT !.integral = 0]

\* PIDController.set_gains: an argument of None leaves the gain as it is
set_gains(pid, kp, ki, kd) ==
    [pid EXCEPT !.kp = IF kp # None THEN kp[1] ELSE @,
                !.ki = IF ki # None THEN ki[1] ELSE @,
                !.kd = IF kd # None THEN kd[1] ELSE @]

\* limits taken over without the test of their order
set_output_limits_unchecked(pid, output_min, output_max) ==
    [pid EXCEPT !.output_min = output_min, !.output_max = output_max]

\* PIDController.set_output_limits: refused when output_min >= output_max
set_output_limits(pid, output_min, output_max) ==
    IF output_min >= output_max
    THEN pid
    ELSE [pid EXCEPT !.output_min = output_min, !.output_max = output_max]

\* PIDController.set_integral_max: abs(integral_max)
set_integral_max(pid, integral_max) ==
    [pid EXCEPT !.integral_max = IF integral_max >= 0 THEN integral_max
                                                      ELSE -integral_max]

\* a sample time taken over without the test of its sign
set_sample_time_unchecked(pid, sample_time) ==
    [pid EXCEPT !.sample_time = Some(sample_time)]

\* PIDController.set_sample_time: refused when sample_time <= 0
set_sample_time(pid, sample_time) ==
    IF sample_time <= 0 THEN pid ELSE [pid EXCEPT !.sample_time = Some(sample_time)]

\* ------------------------------------------------------------------------
\* MSPProtocol.send_rc_override (msp_protocol.py): the 18 channel values of
\* the frame built from roll, pitch, throttle, yaw (aux1..aux4 default)
\* ------------------------------------------------------------------------
\* a clamp that leaves out the upper limit
rc_clamp_no_upper(val) == Max(RC_MIN, val)

\* clamp of send_rc_override (lines 457-458)
rc_clamp(val) == Max(RC_MIN, Min(RC_MAX, val))

send_rc_override(roll, pitch, throttle, yaw) ==
    <<rc_clamp(roll), rc_clamp(pitch), rc_clamp(throttle), rc_clamp(yaw),
      rc_clamp(RC_MID), rc_clamp(RC_MID), rc_clamp(RC_MID), rc_clamp(RC_MID)>>
    \o [i \in 1..10 |-> RC_MID]

\* the channel list send_rc_override builds from all eight of its arguments
\* (lines 457-474): the clamped arguments, then RC_MID up to 18 channels
rc_channels(roll, pitch, throttle, yaw, aux1, aux2, aux3, aux4) ==
    <<rc_clamp(roll), rc_clamp(pitch), rc_clamp(throttle), rc_clamp(yaw),
      rc_clamp(aux1), rc_clamp(aux2), rc_clamp(aux3), rc_clamp(aux4)>>
    \o [i \in 1..10 |-> RC_MID]

\* the channel list send_rc_channels builds (lines 500-506): the values
\* given, RC_MID up to 18 channels, the first 18 of them clamped
send_rc_channels(channels) ==
    LET ch == IF Len(channels) < 18
              THEN channels \o [j \in 1..(18 - Len(channels)) |-> RC_MID]
              ELSE channels
    IN  [i \in 1..18 |-> rc_clamp(ch[i])]

\* struct.pack('<H', v): low byte first
pack_H(v) == <<v % 256, v \div 256>>

\* struct.pack('<' + 'H' * 18, *channels) (line 478): the bytes of the
\* payload; struct.error (no payload, written <<>>) when a value does not
\* fit an unsigned 16-bit field
RECURSIVE pack_channels(_)
pack_channels(channels) ==
    IF channels = <<>>
    THEN <<>>
    ELSE IF \E i \in 1..Len(channels) : channels[i] \notin 0..65535
         THEN <<>>
         ELSE pack_H(Head(channels)) \o pack_channels(Tail(channels))

\* struct.unpack('<' + 'H' * n, data) with n = len(data) // 2, as
\* request_rc_channels decodes channel values (lines 608-609): struct.error
\* when the length of data is odd
unpack_channels(data) ==
    IF Len(data) % 2 # 0
    THEN "struct.error"
    ELSE [i \in 1..(Len(data) \div 2) |-> data[2 * i - 1] + 256 * data[2 * i]]

\* ------------------------------------------------------------------------
\* control_loop (main.py): the computations of one iteration
\* ------------------------------------------------------------------------

\* error_x = (laser_pos[0] - center_x) / center_x with center_x = CAMERA_RES_X / 2
norm_error(pixel, res) == Div(OUT_SCALE * (2 * pixel - res), res)

\* the altitude-scheduled descent rate (lines 254-261)
descent_output(alt) ==
    IF alt > PRECISION_START_HEIGHT
    THEN 0
    ELSE IF alt > LANDING_THRESHOLD_HEIGHT
         THEN -Div(MAX_DESCENT_SPEED * (2 * PRECISION_START_HEIGHT - alt),
                   2 * PRECISION_START_HEIGHT)
         ELSE -MIN_DESCENT_SPEED

\* int(1500 + output * RC_RANGE)
rc_value(output) == Div(1500 * OUT_SCALE + output * RC_RANGE, OUT_SCALE)

\* a compute section that, without a beacon position, repeats the command of
\* the controllers' previous error
compute_section_stale(cur_state, pos, alt, px, py, llt, t) ==
    IF cur_state \in {"TRACKING", "APPROACH"}
    THEN IF pos # None
         THEN LET rx == pid_compute(px, norm_error(pos[1], CAMERA_RES_X), None, t)
                  ry == pid_compute(py, norm_error(pos[2], CAMERA_RES_Y), None, t)
              IN  [roll_output |-> rx.output, pitch_output |-> ry.output,
                   throttle_output |-> descent_output(alt),
                   pid_x |-> rx.pid, pid_y |-> ry.pid, last_laser_time |-> t]
         ELSE [roll_output |-> Div(px.kp * px.prev_error, GAIN_SCALE),
               pitch_output |-> Div(py.kp * py.prev_error, GAIN_SCALE),
               throttle_output |-> 0,
               pid_x |-> IF 2 * (t - llt) > 1 THEN pid_reset(px) ELSE px,
               pid_y |-> IF 2 * (t - llt) > 1 THEN pid_reset(py) ELSE py,
               last_laser_time |-> llt]
    ELSE [roll_output |-> 0, pitch_output |-> 0, throttle_output |-> 0,
          pid_x |-> px, pid_y |-> py, last_laser_time |-> llt]

\* section 3 of the iteration (lines 234-273): the outputs, the controllers
\* and last_laser_time after it
compute_section(cur_state, pos, alt, px, py, llt, t) ==
    IF cur_state \in {"TRACKING", "APPROACH"}
    THEN IF pos # None
         THEN LET rx == pid_compute(px, norm_error(pos[1], CAMERA_RES_X), None, t)
                  ry == pid_compute(py, norm_error(pos[2], CAMERA_RES_Y), None, t)
              IN  [roll_output |-> rx.output, pitch_output |-> ry.output,
                   throttle_output |-> descent_output(alt),
                   pid_x |-> rx.pid, pid_y |-> ry.pid, last_laser_time |-> t]
         ELSE [roll_output |-> 0, pitch_output |-> 0, throttle_output |-> 0,
               pid_x |-> IF 2 * (t - llt) > 1 THEN pid_reset(px) ELSE px,
               pid_y |-> IF 2 * (t - llt) > 1 THEN pid_reset(py) ELSE py,
               last_laser_time |-> llt]
    ELSE [roll_output |-> 0, pitch_output |-> 0, throttle_output |-> 0,
          pid_x |-> px, pid_y |-> py, last_laser_time |-> llt]

\* a send section that hovers in LANDING instead of descending
send_section_landing_hover(cur_state, roll_out, pitch_out, throttle_out) ==
    CASE cur_state = "IDLE" -> <<>>
      [] cur_state \in {"SEARCHING", "LANDING", "LOST"} ->
            <<send_rc_override(1500, 1500, 1500, 1500)>>
      [] cur_state \in {"TRACKING", "APPROACH"} ->
            <<send_rc_override(Max(RC_MIN, Min(RC_MAX, rc_value(roll_out))),
                               Max(RC_MIN, Min(RC_MAX, rc_value(pitch_out))),
                               Max(RC_MIN, Min(RC_MAX, rc_value(throttle_out))),
                               1500)>>
      [] OTHER -> <<>>

\* section 4 of the iteration (lines 278-329): the frames handed to
\* send_rc_override, none in IDLE and none in COMPLETE
send_section(cur_state, roll_out, pitch_out, throttle_out) ==
    CASE cur_state = "IDLE" -> <<>>
      [] cur_state = "SEARCHING" ->
            <<send_rc_override(1500, 1500, 1500, 1500)>>
      [] cur_state \in {"TRACKING", "APPROACH"} ->
            <<send_rc_override(Max(RC_MIN, Min(RC_MAX, rc_value(roll_out))),
                               Max(RC_MIN, Min(RC_MAX, rc_value(pitch_out))),
                               Max(RC_MIN, Min(RC_MAX, rc_value(throttle_out))),
                               1500)>>
      [] cur_state = "LANDING" ->
            <<send_rc_override(1500, 1500, rc_value(-MIN_DESCENT_SPEED), 1500)>>
      [] cur_state = "LOST" ->
            <<send_rc_override(1500, 1500, 1500, 1500)>>
      [] OTHER -> <<>>

\* main.telemetry_data as the module defines it
NewTelemetry ==
    [altitude |-> 0, armed |-> FALSE, mode |-> "UNKNOWN",
     laser_pos |-> None, laser_detected |-> FALSE, system_state |-> "IDLE",
     pid_output |-> <<0, 0>>, rc_channels |-> [i \in 1..8 |-> 1500]]

\* control_loop section 5: the iteration is published to the snapshot
publish_section(data, pos, cur_state, roll, pitch, throttle) ==
    [data EXCEPT
        !.laser_pos = pos,
        !.laser_detected = (pos # None),
        !.system_state = cur_state,
        !.pid_output = <<roll, pitch>>,
        !.rc_channels = <<rc_value(roll), rc_value(pitch), rc_value(throttle), 1500>>]

\* a telemetry iteration that writes the defaults when a request returns
\* no data
telemetry_section_defaults(data, alt, armed) ==
    [data EXCEPT
        !.altitude = IF alt # None THEN alt[1] ELSE 0,
        !.armed = IF armed # None THEN armed[1] ELSE FALSE,
        !.mode = IF armed # None
                 THEN (IF armed[1] THEN "ARMED" ELSE "DISARMED")
                 ELSE "UNKNOWN"]

\* telemetry_loop, the writes under telemetry_lock: alt is what
\* request_altitude returned, armed what request_status returned as its
\* first component (the mode it returns with it follows from armed); a
\* request that returns no data leaves the snapshot's fields as they are
telemetry_section(data, alt, armed) ==
    [data EXCEPT
        !.altitude = IF alt # None THEN alt[1] ELSE @,
        !.armed = IF armed # None THEN armed[1] ELSE @,
        !.mode = IF armed # None
                 THEN (IF armed[1] THEN "ARMED" ELSE "DISARMED")
                 ELSE @]

InitLoop ==
    /\ ctl_pc = "capture"
    /\ laser_pos = None
    /\ current_alt = 0
    /\ current_state = "IDLE"
    /\ roll_output = 0
    /\ pitch_output = 0
    /\ throttle_output = 0
    /\ last_laser_time = 0
    /\ pid_x = NewPID
    /\ pid_y = NewPID
    /\ telemetry_data = NewTelemetry
    /\ sent = <<>>
    /\ op_pc = "get_state"
    /\ op_state = "IDLE"
    /\ tel_pc = "altitude"
    /\ tel_altitude = None
    /\ tel_armed = None

\* ------------------------------------------------------------------------
\* MSPProtocol (msp_protocol.py): the checksum, the frames the engine builds
\* and the responses it reads.  A byte is a number in 0..255.
\* ------------------------------------------------------------------------

\* a ^ b on non-negative integers
RECURSIVE xor(_, _)
xor(a, b) ==
    IF a = 0 THEN b
    ELSE IF b = 0 THEN a
    ELSE ((a + b) % 2) + 2 * xor(a \div 2, b \div 2)

\* the inner loop of a checksum that shifts the other way (least
\* significant bit first, the polynomial reflected)
RECURSIVE crc_bits_lsb_first(_, _)
crc_bits_lsb_first(crc, n) ==
    IF n = 0 THEN crc
    ELSE crc_bits_lsb_first(IF crc % 2 = 1
                            THEN xor(crc \div 2, 171)
                            ELSE crc \div 2,
                            n - 1)

\* MSPProtocol._calculate_crc8_dvb_s2, the inner loop "for _ in range(8)"
\* run n times on crc
RECURSIVE crc_bits(_, _)
crc_bits(crc, n) ==
    IF n = 0 THEN crc
    ELSE crc_bits(IF (crc \div 128) % 2 = 1
                  THEN xor(crc * 2, 213) % 256
                  ELSE (crc * 2) % 256,
                  n - 1)

\* MSPProtocol._calculate_crc8_dvb_s2, the outer loop "for byte in data"
\* continued from crc: the loop over data is the loop over its first half
\* followed by the loop over its second half (the value is computed before
\* the second half starts, which keeps the evaluation shallow)
RECURSIVE crc_bytes(_, _)
crc_bytes(crc, data) ==
    IF data = <<>> THEN crc
    ELSE IF Len(data) = 1 THEN crc_bits(xor(crc, data[1]), 8)
    ELSE LET half == Len(data) \div 2
             first == crc_bytes(crc, SubSeq(data, 1, half))
         IN  IF first \in 0..255
             THEN crc_bytes(first, SubSeq(data, half + 1, Len(data)))
             ELSE first

\* MSPProtocol._calculate_crc8_dvb_s2
calculate_crc8_dvb_s2(data) == crc_bytes(0, data)

\* struct.unpack('<H', b)[0]
unpack_H(b) == b[1] + 256 * b[2]

\* a frame whose checksum covers the three leading marker bytes as well
build_msp_v2_frame_crc_of_all(function, payload) ==
    LET header == <<36, 88, 60>>
        crc_data == <<0>> \o pack_H(function) \o pack_H(Len(payload)) \o payload
    IN  header \o crc_data \o <<calculate_crc8_dvb_s2(header \o crc_data)>>

\* MSPProtocol._build_msp_v2_frame
build_msp_v2_frame(function, payload) ==
    LET header == <<36, 88, 60>>
        crc_data == <<0>> \o pack_H(function) \o pack_H(Len(payload)) \o payload
    IN  header \o crc_data \o <<calculate_crc8_dvb_s2(crc_data)>>

\* the response a flight controller sends with the flag, function, length,
\* payload and checksum of frame f: the same bytes after the direction byte
ResponseOf(f) == <<36, 88, 62>> \o SubSeq(f, 4, Len(f))

\* What the serial port delivers to one _parse_msp_v2_response call is a
\* sequence of bytes followed by silence until the timeout; SerialError in
\* the sequence stands for a read that raises serial.SerialException.
SerialError == -1

\* serial.Serial.read(n) on the bytes s still to come: the bytes read, the
\* bytes left, and whether the read raised
read(s, n) ==
    LET k == Min(n, Len(s))
    IN  [data |-> SubSeq(s, 1, k),
         rest |-> SubSeq(s, k + 1, Len(s)),
         raised |-> \E i \in 1..k : s[i] = SerialError]

\* _parse_msp_v2_response returning None, with the increment of _error_count
Failed(errors) == [result |-> None, error_count |-> errors, rx_count |-> 0]

\* _parse_msp_v2_response after the markers "$X>" (lines 312-350)
parse_frame(s) ==
    LET flag == read(s, 1)
        func_bytes == read(flag.rest, 2)
        size_bytes == read(func_bytes.rest, 2)
        payload_size == unpack_H(size_bytes.data)
        payload == IF payload_size > 0
                   THEN read(size_bytes.rest, payload_size)
                   ELSE [data |-> <<>>, rest |-> size_bytes.rest, raised |-> FALSE]
        crc_byte == read(payload.rest, 1)
        crc_data == flag.data \o func_bytes.data \o size_bytes.data \o payload.data
    IN  IF flag.raised THEN Failed(1)
        ELSE IF flag.data = <<>> THEN Failed(0)
        ELSE IF func_bytes.raised THEN Failed(1)
        ELSE IF Len(func_bytes.data) # 2 THEN Failed(0)
        ELSE IF size_bytes.raised THEN Failed(1)
        ELSE IF Len(size_bytes.data) # 2 THEN Failed(0)
        ELSE IF payload.raised THEN Failed(1)
        ELSE IF Len(payload.data) # payload_size THEN Failed(0)
        ELSE IF crc_byte.raised THEN Failed(1)
        ELSE IF crc_byte.data = <<>> THEN Failed(0)
        ELSE IF crc_byte.data[1] # calculate_crc8_dvb_s2(crc_data) THEN Failed(1)
        ELSE [result |-> Some(<<unpack_H(func_bytes.data), payload.data>>),
              error_count |-> 0, rx_count |-> 1]

\* MSPProtocol._parse_msp_v2_response on a connected engine: the value it
\* returns and what it adds to _error_count and _rx_count.  A read that
\* returns nothing goes round the loop until the timeout, and then the
\* function returns None.
RECURSIVE parse_msp_v2_response(_)
parse_msp_v2_response(s) ==
    LET first == read(s, 1)
        second == read(first.rest, 1)
        third == read(second.rest, 1)
    IN  IF first.raised THEN Failed(1)
        ELSE IF first.data = <<>> THEN Failed(0)
        ELSE IF first.data[1] # 36 THEN parse_msp_v2_response(first.rest)
        ELSE IF second.raised THEN Failed(1)
        ELSE IF second.data = <<>> THEN Failed(0)
        ELSE IF second.data[1] # 88 THEN parse_msp_v2_response(second.rest)
        ELSE IF third.raised THEN Failed(1)
        ELSE IF third.data = <<>> THEN Failed(0)
        ELSE IF third.data[1] = 33 THEN Failed(1)
        ELSE IF third.data[1] # 62 THEN parse_msp_v2_response(third.rest)
        ELSE parse_frame(third.rest)

\* ------------------------------------------------------------------------
\* MSPProtocol (msp_protocol.py): a connected engine (simulation = False,
\* _serial open) and the threads that call it
\* ------------------------------------------------------------------------

\* the control loop (send_rc_override), the telemetry loop (request_altitude,
\* request_status), main() at startup (request_fc_info) and a client of the
\* two public operations main.py does not call (send_rc_channels,
\* request_rc_channels)
Callers == {"control", "telemetry", "startup", "client"}

\* the operations that send a request and await its response
Requests == {"altitude", "status", "variant", "version", "rc channels"}

\* the operations that send a frame without awaiting a response:
\* send_rc_override and send_rc_channels
Sends == {"rc", "channels"}

\* roll values the control loop hands to send_rc_override
EngineRolls == {1500, 1515}

\* channel lists a client hands to send_rc_channels
EngineChannels == {<<1515, 1485, 1462, 1500>>, <<2100>>}

\* what reading a response can come to (_parse_msp_v2_response and the
\* function id test of _send_and_receive):
\*   match      a valid response frame carrying the request's function id
\*   other      a valid response frame carrying another function id
\*   crc        a frame whose checksum does not match  (counts an error)
\*   error      an error-direction frame               (counts an error)
\*   exception  a SerialException while reading        (counts an error)
\*   truncated  a frame cut short
\*   timeout    no frame within the timeout
ParseOutcomes == {"match", "other", "crc", "error", "exception", "truncated", "timeout"}

\* the operation a caller starts when it has started n before
\* (telemetry_loop alternates; request_fc_info makes two requests)
NextOp(th, n) ==
    CASE th = "control" -> "rc"
      [] th = "telemetry" -> IF n = 0 THEN "altitude" ELSE "status"
      [] th = "startup" -> IF n = 0 THEN "variant"
                           ELSE IF n = 1 THEN "version" ELSE "none"
      [] th = "client" -> "rc channels"

AfterOp(th, n) ==
    CASE th = "control" -> n
      [] th = "telemetry" -> 1 - n
      [] th = "startup" -> n + 1
      [] th = "client" -> n

\* "with self._lock" of _send_and_receive (line 409): threading.Lock is not
\* reentrant, the block is entered only when nobody holds the lock
send_and_receive_enter(l, th) == [ok |-> l = "free", lock |-> th, took |-> TRUE]

\* "with self._lock" of _send_frame (line 383)
send_frame_enter(l, th) == [ok |-> l = "free", lock |-> th, took |-> TRUE]

InitEngine ==
    /\ lock = "free"
    /\ eng_pc = [th \in Callers |-> "idle"]
    /\ eng_op = [th \in Callers |-> "none"]
    /\ eng_next = [th \in Callers |-> 0]
    /\ eng_took = [th \in Callers |-> FALSE]
    /\ eng_frame = [th \in Callers |-> <<>>]
    /\ eng_result = [th \in Callers |-> "none"]
    /\ tx_count = 0
    /\ rx_count = 0
    /\ error_count = 0
    /\ last_rc_channels = [i \in 1..18 |-> RC_MID]

\* ------------------------------------------------------------------------
\* Operations on the state machine alone
\* ------------------------------------------------------------------------
InitFSM ==
    /\ now = 1
    /\ state = NewMachine.state
    /\ prev_state = NewMachine.prev_state
    /\ laser_first_seen = NewMachine.laser_first_seen
    /\ laser_last_seen = NewMachine.laser_last_seen
    /\ state_enter_time = NewMachine.state_enter_time
    /\ laser_position = NewMachine.laser_position
    /\ altitude = NewMachine.altitude
    /\ on_state_change = NewMachine.on_state_change
    /\ changes = <<>>
    /\ calls = <<>>
    /\ lastOp = "init"
    /\ opFrom = "IDLE"
    /\ opArgs = NoArgs
    /\ run = NoRun
    /\ track = NoTrack

\* no call of send_rc_override made yet
InitCodec ==
    /\ rc_args = None
    /\ rc_payload = <<>>

\* no descent rate scheduled yet
InitSchedule == descent_calls = <<>>

\* a controller as main() constructs pid_x and pid_y
InitPid ==
    /\ ctrl_args = MainArgs
    /\ ctrl = PIDController(MainArgs)
    /\ ctrl_call = None

\* no checksum computed, no frame built and no response read yet
InitWire ==
    /\ crc_calls = <<>>
    /\ frame_call = None
    /\ resp_call = None

\* the telemetry loop made no iteration yet
InitSnapshot == tel_call = None

\* the control loop captured nothing yet
InitCamera == camera_frame = "frame"

\* no setter called yet
InitSetter == ctrl_set = None

\* the threads that call the state machine, and no call under way
SmCallers == {"control", "operator"}

\* now: the clock reading update() took at its start; rest: what the call
\* has still to do inside the lock
NoCall == [name |-> "none", laser_detected |-> FALSE, altitude |-> 0,
           now |-> 0, rest |-> "none"]

InitSmLock ==
    /\ sm_lock = "free"
    /\ sm_pc = [th \in SmCallers |-> "idle"]
    /\ sm_op = [th \in SmCallers |-> NoCall]

\* no set_param request in progress, the control loop before the roll
\* compute() of its first iteration
InitGain ==
    /\ par_steps = <<>>
    /\ axis_pc = "roll"
    /\ axis_gains = <<>>

\* the program after main() constructed its components
Init ==
    /\ InitFSM /\ InitLoop /\ InitEngine /\ InitCodec /\ InitSchedule /\ InitPid
    /\ InitWire /\ InitSnapshot /\ InitCamera /\ InitSetter /\ InitSmLock /\ InitGain

\* time passes
Tick ==
    /\ now < MaxTime
    /\ now' = now + 1
    /\ UNCHANGED <<fsmVars, histVars, loopVars, engineVars, unitVars>>

\* a call of enable()
Enable ==
    /\ SetMachine(enable(Machine, now))
    /\ lastOp' = "enable"
    /\ opFrom' = state
    /\ opArgs' = NoArgs
    /\ run' = IF state = "IDLE" THEN NewRun ELSE run
    /\ UNCHANGED <<now, track, loopVars, engineVars, unitVars>>

\* a call of disable()
Disable ==
    /\ SetMachine(disable(Machine, now))
    /\ lastOp' = "disable"
    /\ opFrom' = state
    /\ opArgs' = NoArgs
    /\ run' = NoRun
    /\ track' = NoTrack
    /\ UNCHANGED <<now, loopVars, engineVars, unitVars>>

\* a call of update(laser_detected, laser_position, altitude)
Update ==
    \E laser_detected \in BOOLEAN, position \in Positions \cup {None}, alt \in Altitudes :
        /\ SetMachine(update(Machine, laser_detected, position, alt, now))
        /\ lastOp' = "update"
        /\ opFrom' = state
        /\ opArgs' = [laser_detected |-> laser_detected, position |-> position,
                      altitude |-> alt, now |-> now]
        /\ run' = RunAfterUpdate(run, laser_detected, now)
        /\ track' = TrackAfterUpdate(track, state,
                                     update(Machine, laser_detected, position, alt, now).state,
                                     laser_detected, now)
        /\ UNCHANGED <<now, loopVars, engineVars, unitVars>>

\* a call of set_on_state_change(callback)
SetOnStateChange ==
    \E callback \in Handlers :
        /\ SetMachine([Machine EXCEPT !.on_state_change = Some(callback)])
        /\ lastOp' = "set_on_state_change"
        /\ opFrom' = state
        /\ opArgs' = NoArgs
        /\ UNCHANGED <<now, run, track, loopVars, engineVars, unitVars>>

NextFSM == Tick \/ Enable \/ Disable \/ Update \/ SetOnStateChange

Spec == Init /\ [][NextFSM]_vars

\* The state machine as main() uses it: main.py registers no handler, so
\* the calls made are enable(), disable() and update().  The clock runs
\* long enough for the beacon to be confirmed, lost for lost_timeout, found
\* again and confirmed again.
RecoveryTick ==
    /\ now < MaxRecoveryTime
    /\ now' = now + 1
    /\ UNCHANGED <<fsmVars, histVars, loopVars, engineVars, unitVars>>

NextRecovery == RecoveryTick \/ Enable \/ Disable \/ Update

SpecRecovery == Init /\ [][NextRecovery]_vars

\* ------------------------------------------------------------------------
\* The control loop, the telemetry loop and the operator's toggle running
\* concurrently (main.py), on the simulation engine main() falls back to
\* when no flight controller is connected: _send_frame counts the frame and
\* reports it sent.
\* ------------------------------------------------------------------------

\* what capture_frame and detect_laser return in an iteration: a frame
\* with the beacon in it, a frame without it, or no frame
Captures ==
    {<<"frame", pos>> : pos \in LoopPositions \cup {None}} \cup {<<"none", None>>}

\* time passes
LoopTick ==
    /\ now < MaxLoopTime
    /\ now' = now + 1
    /\ UNCHANGED <<fsmVars, histVars, loopVars, engineVars, unitVars>>

\* sections 1 and 2: capture a frame and detect the beacon (capture_frame
\* returns a frame or None; detect_laser finds no position in None), then
\* read the altitude from the snapshot
CtlCapture ==
    /\ ctl_pc = "capture"
    /\ \E c \in Captures :
          /\ camera_frame' = c[1]
          /\ laser_pos' = c[2]
    /\ current_alt' = telemetry_data.altitude
    /\ sent' = <<>>
    /\ ctl_pc' = "update"
    /\ UNCHANGED <<now, engineVars, codecVars, scheduleVars, pidVars, wireVars,
                   snapshotVars, setterVars, concVars, fsmVars, histVars, current_state, roll_output,
                   pitch_output, throttle_output, last_laser_time, pid_x, pid_y,
                   telemetry_data, op_pc, op_state, telLocals>>

\* section 2: state_machine.update(laser_found, laser_pos, current_alt); the
\* captured frame is not read after it
CtlUpdate ==
    /\ ctl_pc = "update"
    /\ SetMachine(update(Machine, laser_pos # None, laser_pos, current_alt, now))
    /\ camera_frame' = "frame"
    /\ ctl_pc' = "get_state"
    /\ UNCHANGED <<now, engineVars, codecVars, scheduleVars, pidVars, wireVars,
                   snapshotVars, setterVars, concVars, lastOp, opFrom, opArgs, run, track, laser_pos, current_alt,
                   current_state, roll_output, pitch_output, throttle_output,
                   last_laser_time, pid_x, pid_y, telemetry_data, sent, op_pc, op_state, telLocals>>

\* section 2: current_state = state_machine.get_state()
CtlGetState ==
    /\ ctl_pc = "get_state"
    /\ current_state' = state
    /\ ctl_pc' = "command"
    /\ UNCHANGED <<now, engineVars, unitVars, fsmVars, histVars, laser_pos, current_alt, roll_output,
                   pitch_output, throttle_output, last_laser_time, pid_x, pid_y,
                   telemetry_data, sent, op_pc, op_state, telLocals>>

\* a frame as transmitted, with the phase the machine is in at that instant
Transmitted(channels) == [channels |-> channels, machine_state |-> state]

\* section 3: the controller outputs of the iteration.  The two compute()
\* calls read the controllers, which no other thread of this specification
\* touches; set_param running between them is SpecGain.
CtlCompute ==
    /\ ctl_pc = "command"
    /\ LET c == compute_section(current_state, laser_pos, current_alt,
                                pid_x, pid_y, last_laser_time, now)
       IN  /\ roll_output' = c.roll_output
           /\ pitch_output' = c.pitch_output
           /\ throttle_output' = c.throttle_output
           /\ pid_x' = c.pid_x
           /\ pid_y' = c.pid_y
           /\ last_laser_time' = c.last_laser_time
    /\ ctl_pc' = "send"
    /\ UNCHANGED <<now, engineVars, unitVars, fsmVars, histVars, laser_pos,
                   current_alt, current_state, telemetry_data, sent, op_pc,
                   op_state, telLocals>>

\* section 4: the command chosen by current_state is handed to
\* send_rc_override, whose _send_frame counts the frame (simulation engine,
\* lines 380-382); no frame in IDLE and COMPLETE
CtlSend ==
    /\ ctl_pc = "send"
    /\ LET frames == send_section(current_state, roll_output, pitch_output,
                                  throttle_output)
       IN  IF frames = <<>>
           THEN /\ ctl_pc' = "publish"
                /\ UNCHANGED <<sent, engineVars>>
           ELSE /\ tx_count < MaxTx
                /\ tx_count' = tx_count + 1
                /\ sent' = sent \o <<Transmitted(frames[1])>>
                /\ ctl_pc' = "store"
                /\ UNCHANGED <<lock, eng_pc, eng_op, eng_next, eng_took, eng_frame,
                               eng_result, rx_count, error_count, last_rc_channels>>
    /\ UNCHANGED <<now, unitVars, fsmVars, histVars, laser_pos, current_alt,
                   current_state, roll_output, pitch_output, throttle_output,
                   last_laser_time, pid_x, pid_y, telemetry_data, op_pc,
                   op_state, telLocals>>

\* section 4, back in send_rc_override: the frame was sent, its first
\* eight channels become _last_rc_channels (line 486)
CtlStore ==
    /\ ctl_pc = "store"
    /\ last_rc_channels' = [i \in 1..18 |-> IF i <= 8 THEN sent[Len(sent)].channels[i]
                                            ELSE last_rc_channels[i]]
    /\ ctl_pc' = "publish"
    /\ UNCHANGED <<now, unitVars, fsmVars, histVars, laser_pos, current_alt,
                   current_state, roll_output, pitch_output, throttle_output,
                   last_laser_time, pid_x, pid_y, telemetry_data, sent, op_pc,
                   op_state, telLocals, lock, eng_pc, eng_op, eng_next, eng_took,
                   eng_frame, eng_result, tx_count, rx_count, error_count>>

\* sections 5 and 6: publish the iteration to the snapshot under
\* telemetry_lock, then sleep
CtlPublish ==
    /\ ctl_pc = "publish"
    /\ telemetry_data' =
           publish_section(telemetry_data, laser_pos, current_state,
                           roll_output, pitch_output, throttle_output)
    /\ ctl_pc' = "capture"
    /\ UNCHANGED <<now, engineVars, unitVars, fsmVars, histVars, laser_pos,
                   current_alt, current_state, roll_output, pitch_output,
                   throttle_output, last_laser_time, pid_x, pid_y, sent, op_pc,
                   op_state, telLocals>>

\* what the steps of telemetry_loop leave alone
TelemetryRest ==
    UNCHANGED <<now, engineVars, fsmVars, histVars, codecVars, scheduleVars,
                pidVars, wireVars, cameraVars, setterVars, concVars, ctl_pc,
                laser_pos, current_alt, current_state, roll_output, pitch_output,
                throttle_output, last_laser_time, pid_x, pid_y, sent, op_pc,
                op_state>>

\* telemetry_loop: altitude = msp.request_altitude() returns one of values
\* (metres in the code, centimetres here).  A call that returns has left
\* the engine's counters as they were: the simulation engine answers
\* before a frame is built (lines 526-527), an engine without a port sends
\* nothing, and on a connected port the call does not return
\* (SendAndReceive).
TelemetryAltitude(values) ==
    /\ tel_pc = "altitude"
    /\ \E alt \in values : tel_altitude' = alt
    /\ tel_pc' = "status"
    /\ UNCHANGED <<tel_armed, telemetry_data>>
    /\ TelemetryRest

\* telemetry_loop: armed, mode = msp.request_status() returns one of values
\* as armed, and with it the mode that follows from armed
TelemetryStatus(values) ==
    /\ tel_pc = "status"
    /\ \E armed \in values : tel_armed' = armed
    /\ tel_pc' = "write"
    /\ UNCHANGED <<tel_altitude, telemetry_data>>
    /\ TelemetryRest

\* telemetry_loop: the writes under telemetry_lock, then sleep
TelemetryWrite ==
    /\ tel_pc = "write"
    /\ telemetry_data' = telemetry_section(telemetry_data, tel_altitude, tel_armed)
    /\ tel_pc' = "altitude"
    /\ UNCHANGED <<tel_altitude, tel_armed>>
    /\ TelemetryRest

\* the telemetry loop running beside the control loop
LoopRequestAltitude ==
    /\ TelemetryAltitude({Some(a) : a \in LoopAltitudes})
    /\ UNCHANGED snapshotVars

LoopRequestStatus ==
    /\ TelemetryStatus(LoopStatuses)
    /\ UNCHANGED snapshotVars

LoopWrite ==
    /\ TelemetryWrite
    /\ UNCHANGED snapshotVars

\* toggle_enable: current_state = state_machine.get_state()
OpGetState ==
    /\ op_pc = "get_state"
    /\ op_state' = state
    /\ op_pc' = "toggle"
    /\ UNCHANGED <<now, engineVars, unitVars, fsmVars, histVars, ctl_pc, laser_pos, current_alt,
                   current_state, roll_output, pitch_output, throttle_output,
                   last_laser_time, pid_x, pid_y, telemetry_data, sent, telLocals>>

\* toggle_enable: enable() when the phase read was IDLE, disable() otherwise
OpToggle ==
    /\ op_pc = "toggle"
    /\ SetMachine(IF op_state = "IDLE" THEN enable(Machine, now)
                                       ELSE disable(Machine, now))
    /\ op_pc' = "get_state"
    /\ op_state' = "IDLE"
    /\ UNCHANGED <<now, engineVars, unitVars, lastOp, opFrom, opArgs, run, track, ctl_pc, laser_pos, current_alt,
                   current_state, roll_output, pitch_output, throttle_output,
                   last_laser_time, pid_x, pid_y, telemetry_data, sent, telLocals>>

NextLoop ==
    \/ LoopTick
    \/ CtlCapture \/ CtlUpdate \/ CtlGetState
    \/ CtlCompute \/ CtlSend \/ CtlStore \/ CtlPublish
    \/ LoopRequestAltitude \/ LoopRequestStatus \/ LoopWrite
    \/ OpGetState \/ OpToggle

SpecLoop == Init /\ [][NextLoop]_vars

\* The control loop and the operator's toggle through a flight, before the
\* telemetry loop has written an altitude (the snapshot keeps the 0.0 it
\* starts with): the clock runs long enough for the beacon to be confirmed
\* and then lost for lost_timeout, so that the loop runs in every phase.
FlightTick ==
    /\ now < MaxFlightTime
    /\ now' = now + 1
    /\ UNCHANGED <<fsmVars, histVars, loopVars, engineVars, unitVars>>

NextFlight ==
    \/ FlightTick
    \/ CtlCapture \/ CtlUpdate \/ CtlGetState
    \/ CtlCompute \/ CtlSend \/ CtlStore \/ CtlPublish
    \/ OpGetState \/ OpToggle

SpecFlight == Init /\ [][NextFlight]_vars

\* ------------------------------------------------------------------------
\* The engine used by its callers concurrently (msp_protocol.py)
\* ------------------------------------------------------------------------

\* send_rc_override up to its call of _send_frame
SendRcOverride(th) ==
    /\ th = "control"
    /\ eng_pc[th] = "idle"
    /\ tx_count < MaxTx /\ error_count < MaxErrors
    /\ \E roll \in EngineRolls :
          eng_frame' = [eng_frame EXCEPT ![th] = send_rc_override(roll, RC_MID, RC_MID, RC_MID)]
    /\ eng_op' = [eng_op EXCEPT ![th] = "rc"]
    /\ eng_pc' = [eng_pc EXCEPT ![th] = "sf_lock"]
    /\ eng_next' = [eng_next EXCEPT ![th] = AfterOp(th, @)]
    /\ UNCHANGED <<lock, eng_took, eng_result, tx_count, rx_count, error_count,
                   last_rc_channels>>
    /\ UNCHANGED <<now, fsmVars, histVars, loopVars, unitVars>>

\* send_rc_channels (lines 490-515) up to its call of _send_frame: the
\* channel values completed to 18 and clamped
SendRcChannels(th) ==
    /\ th = "client"
    /\ eng_pc[th] = "idle"
    /\ tx_count < MaxTx /\ error_count < MaxErrors
    /\ \E channels \in EngineChannels :
          eng_frame' = [eng_frame EXCEPT ![th] = send_rc_channels(channels)]
    /\ eng_op' = [eng_op EXCEPT ![th] = "channels"]
    /\ eng_pc' = [eng_pc EXCEPT ![th] = "sf_lock"]
    /\ eng_next' = [eng_next EXCEPT ![th] = AfterOp(th, @)]
    /\ UNCHANGED <<lock, eng_took, eng_result, tx_count, rx_count, error_count,
                   last_rc_channels>>
    /\ UNCHANGED <<now, fsmVars, histVars, loopVars, unitVars>>

\* request_altitude, request_status, request_rc_channels and the two
\* requests of request_fc_info up to "with self._lock" of _send_and_receive
Request(th) ==
    /\ th # "control"
    /\ eng_pc[th] = "idle"
    /\ NextOp(th, eng_next[th]) # "none"
    /\ tx_count < MaxTx /\ error_count < MaxErrors
    /\ eng_op' = [eng_op EXCEPT ![th] = NextOp(th, eng_next[th])]
    /\ eng_pc' = [eng_pc EXCEPT ![th] = "sr_lock"]
    /\ eng_next' = [eng_next EXCEPT ![th] = AfterOp(th, @)]
    /\ UNCHANGED <<lock, eng_took, eng_frame, eng_result, tx_count, rx_count,
                   error_count, last_rc_channels>>
    /\ UNCHANGED <<now, fsmVars, histVars, loopVars, unitVars>>

\* _send_frame: take the lock (sf_lock), then write and flush the frame,
\* count it, release the lock and return to send_rc_override,
\* send_rc_channels or _send_and_receive
SendFrame(th) ==
    /\ eng_pc[th] \in {"sf_lock", "sf_writing"}
    /\ IF eng_pc[th] = "sf_lock"
       THEN LET e == send_frame_enter(lock, th)
            IN  /\ e.ok
                /\ lock' = e.lock
                /\ eng_took' = [eng_took EXCEPT ![th] = e.took]
                /\ eng_pc' = [eng_pc EXCEPT ![th] = "sf_writing"]
                /\ UNCHANGED <<eng_op, eng_result, tx_count, error_count>>
       ELSE \E written \in BOOLEAN :
                LET released == IF eng_took[th] THEN "free" ELSE lock
                IN  /\ tx_count' = IF written THEN tx_count + 1 ELSE tx_count
                    /\ error_count' = IF written THEN error_count ELSE error_count + 1
                    /\ eng_took' = [eng_took EXCEPT ![th] = FALSE]
                    /\ IF eng_op[th] \in Sends
                       THEN /\ lock' = released
                            /\ eng_result' = [eng_result EXCEPT ![th] =
                                                 IF written THEN "sent" ELSE "not sent"]
                            /\ eng_pc' = [eng_pc EXCEPT ![th] =
                                             IF eng_op[th] = "rc" THEN "rc_return"
                                                                  ELSE "idle"]
                            /\ eng_op' = [eng_op EXCEPT ![th] =
                                             IF eng_op[th] = "rc" THEN "rc" ELSE "none"]
                       ELSE IF written
                            THEN /\ lock' = released
                                 /\ eng_pc' = [eng_pc EXCEPT ![th] = "sr_parse"]
                                 /\ UNCHANGED <<eng_op, eng_result>>
                            ELSE /\ lock' = "free"
                                 /\ eng_result' = [eng_result EXCEPT ![th] = "no data"]
                                 /\ eng_pc' = [eng_pc EXCEPT ![th] = "idle"]
                                 /\ eng_op' = [eng_op EXCEPT ![th] = "none"]
    /\ UNCHANGED <<eng_next, eng_frame, rx_count, last_rc_channels>>
    /\ UNCHANGED <<now, fsmVars, histVars, loopVars, unitVars>>

\* send_rc_override after _send_frame has returned (lines 485-488), outside
\* the lock: "if success: self._last_rc_channels[:8] = channels[:8]"
StoreRcChannels(th) ==
    /\ eng_pc[th] = "rc_return"
    /\ last_rc_channels' =
           IF eng_result[th] = "sent"
           THEN [i \in 1..18 |-> IF i <= 8 THEN eng_frame[th][i]
                                 ELSE last_rc_channels[i]]
           ELSE last_rc_channels
    /\ eng_pc' = [eng_pc EXCEPT ![th] = "idle"]
    /\ eng_op' = [eng_op EXCEPT ![th] = "none"]
    /\ UNCHANGED <<lock, eng_next, eng_took, eng_frame, eng_result, tx_count,
                   rx_count, error_count>>
    /\ UNCHANGED <<now, fsmVars, histVars, loopVars, unitVars>>

\* _send_and_receive: take the lock (sr_lock) and call _send_frame; after a
\* successful send read the response (sr_parse), release the lock and return
SendAndReceive(th) ==
    /\ eng_pc[th] \in {"sr_lock", "sr_parse"}
    /\ IF eng_pc[th] = "sr_lock"
       THEN LET e == send_and_receive_enter(lock, th)
            IN  /\ e.ok
                /\ lock' = e.lock
                /\ eng_pc' = [eng_pc EXCEPT ![th] = "sf_lock"]
                /\ UNCHANGED <<eng_op, eng_result, rx_count, error_count>>
       ELSE \E outcome \in ParseOutcomes :
                /\ rx_count' = IF outcome \in {"match", "other"}
                               THEN rx_count + 1 ELSE rx_count
                /\ error_count' = IF outcome \in {"crc", "error", "exception"}
                                  THEN error_count + 1 ELSE error_count
                /\ lock' = "free"
                /\ eng_result' = [eng_result EXCEPT ![th] =
                                     IF outcome = "match" THEN "data" ELSE "no data"]
                /\ eng_pc' = [eng_pc EXCEPT ![th] = "idle"]
                /\ eng_op' = [eng_op EXCEPT ![th] = "none"]
    /\ UNCHANGED <<eng_next, eng_took, eng_frame, tx_count, last_rc_channels>>
    /\ UNCHANGED <<now, fsmVars, histVars, loopVars, unitVars>>

NextEngine ==
    \/ \E th \in Callers : SendRcOverride(th)
    \/ \E th \in Callers : SendRcChannels(th)
    \/ \E th \in Callers : Request(th)
    \/ \E th \in Callers : SendFrame(th)
    \/ \E th \in Callers : StoreRcChannels(th)
    \/ \E th \in Callers : SendAndReceive(th)

SpecEngine == Init /\ [][NextEngine]_vars

\* each thread keeps running: a caller inside the engine takes its next step
\* whenever that step is possible again and again
SpecEngineLive ==
    /\ SpecEngine
    /\ \A th \in Callers :
          /\ SF_vars(SendFrame(th))
          /\ SF_vars(SendAndReceive(th))
          /\ WF_vars(StoreRcChannels(th))

\* ------------------------------------------------------------------------
\* send_rc_override on its own (msp_protocol.py)
\* ------------------------------------------------------------------------

\* send_rc_override(roll, pitch, throttle, yaw, aux1, aux2, aux3, aux4) up
\* to the payload it hands to _build_msp_v2_frame
RcOverridePayload ==
    /\ \E roll \in RcInputs, pitch \in RcInputs, throttle \in RcInputs,
          yaw \in YawInputs, aux \in AuxInputs :
          /\ rc_args' = <<roll, pitch, throttle, yaw>> \o aux
          /\ rc_payload' = pack_channels(rc_channels(roll, pitch, throttle, yaw,
                                                     aux[1], aux[2], aux[3], aux[4]))
    /\ UNCHANGED <<now, fsmVars, histVars, loopVars, engineVars, scheduleVars, pidVars,
                   wireVars, snapshotVars, cameraVars,
                   setterVars, concVars>>

NextCodec == RcOverridePayload

SpecCodec == Init /\ [][NextCodec]_vars

\* ------------------------------------------------------------------------
\* The descent schedule on its own (main.py lines 253-261)
\* ------------------------------------------------------------------------

\* the schedule is evaluated for an altitude, as an iteration with the beacon
\* detected in TRACKING or APPROACH does; the last two evaluations are kept,
\* the latest first
ScheduleDescent ==
    /\ \E alt \in ScheduleAltitudes :
          descent_calls' =
              <<[altitude |-> alt, throttle_output |-> descent_output(alt)]>>
              \o (IF descent_calls = <<>> THEN <<>> ELSE <<descent_calls[1]>>)
    /\ UNCHANGED <<now, fsmVars, histVars, loopVars, engineVars, codecVars, pidVars,
                   wireVars, snapshotVars, cameraVars,
                   setterVars, concVars>>

NextSchedule == ScheduleDescent

SpecSchedule == Init /\ [][NextSchedule]_vars

\* ------------------------------------------------------------------------
\* A controller on its own (pid_controller.py)
\* ------------------------------------------------------------------------

PidRest == UNCHANGED <<fsmVars, histVars, loopVars, engineVars, codecVars, scheduleVars,
                       wireVars, snapshotVars, cameraVars,
                   setterVars, concVars>>

\* time passes
PidTick ==
    /\ now < MaxPidTime
    /\ now' = now + 1
    /\ UNCHANGED pidVars
    /\ PidRest

\* PIDController(...)
PidConstruct ==
    /\ \E args \in CtrlArgs :
          /\ ctrl_args' = args
          /\ ctrl' = PIDController(args)
    /\ ctrl_call' = None
    /\ UNCHANGED now
    /\ PidRest

\* the number of compute() calls made on the controller
Computes == IF ctrl_call = None THEN 0 ELSE ctrl_call[1].n

\* compute(error, measurement); the call is recorded with the controller
\* as it was before and after it
PidCompute ==
    /\ Computes < MaxComputes
    /\ \E input \in PidInputs :
          LET r == pid_compute(ctrl, input[1], input[2], now)
          IN  /\ ctrl' = r.pid
              /\ ctrl_call' = Some([n |-> Computes + 1, error |-> input[1],
                                    measurement |-> input[2], t |-> now,
                                    before |-> ctrl,
                                    after |-> r.pid, output |-> r.output])
    /\ UNCHANGED <<now, ctrl_args>>
    /\ PidRest

PidSetGains ==
    /\ \E g \in GainUpdates : ctrl' = set_gains(ctrl, g[1], g[2], g[3])
    /\ UNCHANGED <<now, ctrl_args, ctrl_call>>
    /\ PidRest

PidSetOutputLimits ==
    /\ \E l \in LimitUpdates : ctrl' = set_output_limits(ctrl, l[1], l[2])
    /\ UNCHANGED <<now, ctrl_args, ctrl_call>>
    /\ PidRest

PidSetIntegralMax ==
    /\ \E m \in IntegralMaxUpdates : ctrl' = set_integral_max(ctrl, m)
    /\ UNCHANGED <<now, ctrl_args, ctrl_call>>
    /\ PidRest

PidSetSampleTime ==
    /\ \E st \in SampleTimeUpdates : ctrl' = set_sample_time(ctrl, st)
    /\ UNCHANGED <<now, ctrl_args, ctrl_call>>
    /\ PidRest

PidReset ==
    /\ ctrl' = pid_reset(ctrl)
    /\ UNCHANGED <<now, ctrl_args, ctrl_call>>
    /\ PidRest

PidResetIntegral ==
    /\ ctrl' = pid_reset_integral(ctrl)
    /\ UNCHANGED <<now, ctrl_args, ctrl_call>>
    /\ PidRest

NextPid ==
    \/ PidTick
    \/ PidConstruct
    \/ PidCompute
    \/ PidSetGains
    \/ PidSetOutputLimits
    \/ PidSetIntegralMax
    \/ PidSetSampleTime
    \/ PidReset
    \/ PidResetIntegral

SpecPid == Init /\ [][NextPid]_vars

\* ------------------------------------------------------------------------
\* The checksum on its own (msp_protocol.py lines 189-211)
\* ------------------------------------------------------------------------

\* the sequences of at most n elements of S
SeqsUpTo(S, n) == UNION {[1..k -> S] : k \in 0..n}

\* the bytes the checksum is computed for: all bits clear, the lowest bit,
\* the highest bit (the branch that applies the polynomial), all bits set
CrcBytes == {0, 1, 128, 255}

\* the ASCII string "123456789", the customary check input of a CRC
CheckString == <<49, 50, 51, 52, 53, 54, 55, 56, 57>>

CrcInputs == SeqsUpTo(CrcBytes, MaxCrcLen) \cup {CheckString}

\* _calculate_crc8_dvb_s2(data) is called; the last two calls are kept, the
\* latest first
Checksum ==
    /\ \E data \in CrcInputs :
          crc_calls' =
              <<[data |-> data, crc |-> calculate_crc8_dvb_s2(data)]>>
              \o (IF crc_calls = <<>> THEN <<>> ELSE <<crc_calls[1]>>)
    /\ UNCHANGED <<now, fsmVars, histVars, loopVars, engineVars, codecVars,
                   scheduleVars, pidVars, frame_call, resp_call, snapshotVars,
                   cameraVars, setterVars, concVars>>

NextCrc == Checksum

SpecCrc == Init /\ [][NextCrc]_vars

\* ------------------------------------------------------------------------
\* Frames on their own (msp_protocol.py lines 217-257)
\* ------------------------------------------------------------------------

\* the function ids the engine uses, and two that need both bytes of the u16
FrameFunctions == {2, 3, 101, 109, 200, 4660, 65535}

\* payload bytes: zero, the start marker '$' and all bits set
PayloadBytes == {0, 36, 255}

\* short payloads, the 36 bytes send_rc_override builds for the neutral
\* command, and a payload whose length needs both bytes of the u16
FramePayloads ==
    SeqsUpTo(PayloadBytes, MaxPayloadLen)
    \cup {pack_channels(send_rc_override(1500, 1500, 1500, 1500)),
          [i \in 1..300 |-> i % 256]}

\* _build_msp_v2_frame(function, payload) is called
BuildFrame ==
    /\ \E function \in FrameFunctions, payload \in FramePayloads :
          frame_call' = Some([function |-> function, payload |-> payload,
                              frame |-> build_msp_v2_frame(function, payload)])
    /\ UNCHANGED <<now, fsmVars, histVars, loopVars, engineVars, codecVars,
                   scheduleVars, pidVars, crc_calls, resp_call, snapshotVars,
                   cameraVars, setterVars, concVars>>

NextFrame == BuildFrame

SpecFrame == Init /\ [][NextFrame]_vars

\* ------------------------------------------------------------------------
\* Reading responses on their own (msp_protocol.py lines 263-360)
\* ------------------------------------------------------------------------

\* the response to MSP_ALTITUDE carrying 10000 cm, and an empty response
AltitudeResponse == ResponseOf(build_msp_v2_frame(109, <<16, 39, 0, 0>>))
EmptyResponse == ResponseOf(build_msp_v2_frame(200, <<>>))

\* r cut short after each of its bytes, down to nothing at all (silence
\* until the timeout)
Truncated(r) == {SubSeq(r, 1, k) : k \in 0..(Len(r) - 1)}

\* r with another checksum byte
BadChecksum(r) == [r EXCEPT ![Len(r)] = (@ + 1) % 256]

\* what the port delivers during one read of a response: a whole response,
\* alone or after noise, after a stray '$' or after a request frame; a
\* response with a flag other than 0; a response with a wrong checksum; an
\* error-direction frame; a response cut short anywhere; a start marker
\* directly before a response (the parser takes its '$' for the byte after
\* the marker); and reads that raise serial.SerialException
ResponseStreams ==
    {AltitudeResponse, EmptyResponse,
     <<0, 255>> \o AltitudeResponse,
     <<36, 0>> \o AltitudeResponse,
     build_msp_v2_frame(109, <<>>) \o AltitudeResponse,
     <<36, 88, 62, 1, 109, 0, 0, 0>> \o <<calculate_crc8_dvb_s2(<<1, 109, 0, 0, 0>>)>>,
     BadChecksum(AltitudeResponse), BadChecksum(EmptyResponse),
     <<36, 88, 33, 0, 109, 0, 0, 0>> \o <<calculate_crc8_dvb_s2(<<0, 109, 0, 0, 0>>)>>,
     <<36>> \o AltitudeResponse,
     <<SerialError>>,
     SubSeq(AltitudeResponse, 1, 6) \o <<SerialError>>}
    \cup Truncated(AltitudeResponse)

\* one call of _parse_msp_v2_response on a connected engine
ParseResponse ==
    /\ rx_count < MaxTx
    /\ error_count < MaxErrors
    /\ \E s \in ResponseStreams :
          LET r == parse_msp_v2_response(s)
          IN  /\ rx_count' = rx_count + r.rx_count
              /\ error_count' = error_count + r.error_count
              /\ resp_call' = Some([stream |-> s, result |-> r.result,
                                    rx_before |-> rx_count,
                                    error_before |-> error_count,
                                    rx_after |-> rx_count + r.rx_count,
                                    error_after |-> error_count + r.error_count])
    /\ UNCHANGED <<now, fsmVars, histVars, loopVars, lock, eng_pc, eng_op, eng_next,
                   eng_took, eng_frame, eng_result, tx_count, last_rc_channels,
                   codecVars, scheduleVars, pidVars, crc_calls, frame_call,
                   snapshotVars, cameraVars,
                   setterVars, concVars>>

NextParse == ParseResponse

SpecParse == Init /\ [][NextParse]_vars

\* ------------------------------------------------------------------------
\* The snapshot shared by the two loops, on its own (main.py lines 334-344
\* and 378-398)
\* ------------------------------------------------------------------------

\* what request_altitude and request_status return (the first component)
SnapshotAltitudes == {None, Some(10), Some(1000), Some(1500)}
SnapshotStatuses == {None, Some(FALSE), Some(TRUE)}

\* what a control-loop iteration publishes: position, phase, outputs
SnapshotPublished ==
    {<<None, "IDLE", 0, 0, 0>>, <<None, "TRACKING", 0, 0, 0>>,
     <<<<1092, 272>>, "TRACKING", 6000, -6000, -3000>>,
     <<<<1092, 272>>, "LANDING", 0, 0, 0>>}

\* telemetry_loop: altitude = msp.request_altitude()
SnapshotRequestAltitude ==
    /\ TelemetryAltitude(SnapshotAltitudes)
    /\ UNCHANGED snapshotVars

\* telemetry_loop: armed, mode = msp.request_status()
SnapshotRequestStatus ==
    /\ TelemetryStatus(SnapshotStatuses)
    /\ UNCHANGED snapshotVars

\* telemetry_loop: the writes under telemetry_lock
SnapshotWrite ==
    /\ TelemetryWrite
    /\ tel_call' = Some([altitude |-> tel_altitude, armed |-> tel_armed,
                         before |-> telemetry_data, after |-> telemetry_data'])

\* the control loop publishes an iteration
SnapshotPublish ==
    /\ \E p \in SnapshotPublished :
          telemetry_data' = publish_section(telemetry_data, p[1], p[2], p[3], p[4], p[5])
    /\ UNCHANGED <<now, fsmVars, histVars, engineVars, codecVars, scheduleVars,
                   pidVars, wireVars, snapshotVars, cameraVars, setterVars, concVars,
                   ctl_pc, laser_pos, current_alt,
                   current_state, roll_output, pitch_output, throttle_output,
                   last_laser_time, pid_x, pid_y, sent, op_pc, op_state, telLocals>>

NextSnapshot ==
    \/ SnapshotRequestAltitude \/ SnapshotRequestStatus \/ SnapshotWrite
    \/ SnapshotPublish

SpecSnapshot == Init /\ [][NextSnapshot]_vars

\* ------------------------------------------------------------------------
\* The setters of a controller, called between its compute() calls
\* (pid_controller.py lines 229-264)
\* ------------------------------------------------------------------------

\* what the operations on a controller and its setters leave alone
SetterRest == UNCHANGED <<fsmVars, histVars, loopVars, engineVars, codecVars, scheduleVars,
                          wireVars, snapshotVars, cameraVars, concVars>>

\* PIDController(...)
SetterConstruct ==
    /\ \E args \in CtrlArgs :
          /\ ctrl_args' = args
          /\ ctrl' = PIDController(args)
    /\ ctrl_set' = None
    /\ UNCHANGED <<now, ctrl_call>>
    /\ SetterRest

\* compute(error, measurement)
SetterCompute ==
    /\ \E input \in PidInputs :
          ctrl' = pid_compute(ctrl, input[1], input[2], now).pid
    /\ ctrl_set' = None
    /\ UNCHANGED <<now, ctrl_args, ctrl_call>>
    /\ SetterRest

\* the setters' arguments: the range proper, reversed and empty, the period
\* positive, zero and negative
SetterLimitUpdates == LimitUpdates \cup {<<6000, 6000>>}
SetterSampleTimeUpdates == SampleTimeUpdates \cup {-50}

\* set_output_limits(output_min, output_max)
SetterOutputLimits ==
    /\ \E l \in SetterLimitUpdates :
          LET after == set_output_limits(ctrl, l[1], l[2])
          IN  /\ ctrl' = after
              /\ ctrl_set' = Some([op |-> "set_output_limits", args |-> l,
                                   before |-> ctrl, after |-> after])
    /\ UNCHANGED <<now, ctrl_args, ctrl_call>>
    /\ SetterRest

\* set_sample_time(sample_time)
SetterSampleTime ==
    /\ \E st \in SetterSampleTimeUpdates :
          LET after == set_sample_time(ctrl, st)
          IN  /\ ctrl' = after
              /\ ctrl_set' = Some([op |-> "set_sample_time", args |-> <<st>>,
                                   before |-> ctrl, after |-> after])
    /\ UNCHANGED <<now, ctrl_args, ctrl_call>>
    /\ SetterRest

NextSetters ==
    \/ PidTick
    \/ SetterConstruct
    \/ SetterCompute
    \/ SetterOutputLimits
    \/ SetterSampleTime

SpecSetters == Init /\ [][NextSetters]_vars

\* ------------------------------------------------------------------------
\* The state machine's lock (state_machine.py): two threads call the
\* machine, every public method but set_on_state_change runs inside
\* "with self._lock", and _change_state calls the handler inside it.
\* ------------------------------------------------------------------------

\* the calls a thread makes: the control loop calls update() and
\* get_state() (main.py lines 223-229), the operator's toggle get_state(),
\* enable() and disable() (lines 456-462)
SmCalls(th) ==
    IF th = "control"
    THEN {[name |-> "update", laser_detected |-> d, altitude |-> a,
           now |-> 0, rest |-> "none"] :
             d \in BOOLEAN, a \in {TOUCHDOWN_HEIGHT, LANDING_THRESHOLD_HEIGHT + 1}}
         \cup {[NoCall EXCEPT !.name = "get_state"]}
    ELSE {[NoCall EXCEPT !.name = n] : n \in {"get_state", "enable", "disable"}}

\* the handlers registered while the threads run
SmHandlers == Handlers \cup ReentrantHandlers

\* "with self._lock" with a lock that its holder may take again
sm_lock_enter_reentrant(l, th) == l = "free" \/ l = th

\* "with self._lock": threading.Lock, entered only when nobody holds it
sm_lock_enter(l, th) == l = "free"

\* the body of call c on machine m at time t, up to the return of its first
\* _change_state: all of enable(), disable() and get_state(); of update()
\* all but the second if of the LANDING branch
sm_begin(c, m, t) ==
    CASE c.name = "enable" -> enable(m, t)
      [] c.name = "disable" -> disable(m, t)
      [] c.name = "update" ->
            LET m2 == update_values(m, c.laser_detected,
                                    IF c.laser_detected THEN <<728, 544>> ELSE None,
                                    c.altitude, t)
            IN  IF m2.state = "LANDING"
                THEN landing_touchdown(m2, t)
                ELSE process_state(m2, c.laser_detected, t)
      [] OTHER -> m

\* what call c has still to do when sm_begin is done in phase from
sm_rest(c, from) ==
    IF c.name = "update" /\ from = "LANDING" THEN "landing_lost" ELSE "none"

\* time passes
SmTick ==
    /\ now < MaxSmTime
    /\ now' = now + 1
    /\ UNCHANGED <<fsmVars, histVars, loopVars, engineVars, unitVars>>

\* set_on_state_change(callback): a plain assignment, no lock.  It can run
\* at any point of another thread's locked block; as it writes nothing but
\* _on_state_change, which the block reads only where _change_state calls
\* the handler, it falls before or after each of those calls.
SmRegister ==
    \E callback \in SmHandlers :
        /\ on_state_change' = Some(callback)
        /\ UNCHANGED <<now, state, prev_state, laser_first_seen, laser_last_seen,
                       state_enter_time, laser_position, altitude, histVars,
                       loopVars, engineVars, unitVars>>

\* a thread calls a method of the machine and arrives at "with self._lock"
SmCall(th) ==
    /\ sm_pc[th] = "idle"
    /\ \E c \in SmCalls(th) : sm_op' = [sm_op EXCEPT ![th] = c]
    /\ sm_pc' = [sm_pc EXCEPT ![th] = "lock"]
    /\ UNCHANGED <<now, fsmVars, histVars, loopVars, engineVars, codecVars,
                   scheduleVars, pidVars, wireVars, snapshotVars, cameraVars,
                   setterVars, gainVars, sm_lock>>

\* where a thread stands when a _change_state of its call has returned
\* or was not made: at the second if of the LANDING branch, or at the end
\* of the block, which releases the lock
SmAfter(th, c) ==
    IF c.rest = "landing_lost"
    THEN /\ sm_lock' = th
         /\ sm_pc' = [sm_pc EXCEPT ![th] = "landing_lost"]
         /\ sm_op' = [sm_op EXCEPT ![th] = c]
    ELSE /\ sm_lock' = "free"
         /\ sm_pc' = [sm_pc EXCEPT ![th] = "idle"]
         /\ sm_op' = [sm_op EXCEPT ![th] = NoCall]

\* where a thread stands when the handler that _change_state called has
\* called a method of the machine: at that method's "with self._lock",
\* inside its own
SmWait(th, c) ==
    /\ sm_lock' = th
    /\ sm_pc' = [sm_pc EXCEPT ![th] = "handler"]
    /\ sm_op' = [sm_op EXCEPT ![th] = c]

\* a thread enters "with self._lock".  The caller of a method (lock) runs
\* the method body up to the return of its first _change_state, which has
\* called the handler registered at that moment.  A handler's own call
\* (handler) enters the block, returns, and the method that called the
\* handler goes on.
SmEnter(th) ==
    /\ sm_pc[th] \in {"lock", "handler"}
    /\ sm_lock_enter(sm_lock, th)
    /\ IF sm_pc[th] = "lock"
       THEN LET m == sm_begin(sm_op[th], Machine, now)
                c == [sm_op[th] EXCEPT !.now = now,
                                       !.rest = sm_rest(sm_op[th], state)]
            IN  /\ SetFields(m)
                /\ IF Waiting(m) THEN SmWait(th, c) ELSE SmAfter(th, c)
       ELSE /\ SmAfter(th, sm_op[th])
            /\ UNCHANGED fsmVars
    /\ UNCHANGED <<now, histVars, loopVars, engineVars, codecVars,
                   scheduleVars, pidVars, wireVars, snapshotVars, cameraVars,
                   setterVars, gainVars>>

\* update() in LANDING, after the touchdown test and its _change_state: the
\* second if of the branch (lines 350-354), with the "now" update() read
\* at its start and the handler registered at this moment; then the end of
\* the block
SmLandingLost(th) ==
    /\ sm_pc[th] = "landing_lost"
    /\ LET m == landing_lost(Machine, sm_op[th].laser_detected, sm_op[th].now, now)
           c == [sm_op[th] EXCEPT !.rest = "none"]
       IN  /\ SetFields(m)
           /\ IF Waiting(m) THEN SmWait(th, c) ELSE SmAfter(th, c)
    /\ UNCHANGED <<now, histVars, loopVars, engineVars,
                   codecVars, scheduleVars, pidVars, wireVars, snapshotVars,
                   cameraVars, setterVars, gainVars>>

NextSmLock ==
    \/ SmTick
    \/ SmRegister
    \/ \E th \in SmCallers : SmCall(th)
    \/ \E th \in SmCallers : SmEnter(th)
    \/ \E th \in SmCallers : SmLandingLost(th)

SpecSmLock == Init /\ [][NextSmLock]_vars

\* ------------------------------------------------------------------------
\* Runtime gain updates (main.py): the /param handler runs in a server
\* thread and calls set_gains on pid_x and then on pid_y, gain by gain,
\* while the control loop calls pid_x.compute and then pid_y.compute.
\* Neither takes a lock.  The beacon stays at one place and the clock
\* stands still.
\* ------------------------------------------------------------------------

\* the JSON bodies of the requests: each gain absent or present
ParamRequests ==
    {[kp |-> kp, ki |-> ki, kd |-> kd] :
        kp \in {None, Some(200), Some(300)},
        ki \in {None, Some(0)},
        kd \in {None, Some(10)}} \ {[kp |-> None, ki |-> None, kd |-> None]}

\* set_param: the set_gains calls it makes for a body, in order
set_param(data) ==
    (IF data.kp # None
     THEN <<[pid |-> "x", kp |-> data.kp, ki |-> None, kd |-> None],
            [pid |-> "y", kp |-> data.kp, ki |-> None, kd |-> None]>>
     ELSE <<>>)
    \o (IF data.ki # None
        THEN <<[pid |-> "x", kp |-> None, ki |-> data.ki, kd |-> None],
               [pid |-> "y", kp |-> None, ki |-> data.ki, kd |-> None]>>
        ELSE <<>>)
    \o (IF data.kd # None
        THEN <<[pid |-> "x", kp |-> None, ki |-> None, kd |-> data.kd],
               [pid |-> "y", kp |-> None, ki |-> None, kd |-> data.kd]>>
        ELSE <<>>)

\* the gains of a controller
Gains(pid) == <<pid.kp, pid.ki, pid.kd>>

GainRest ==
    UNCHANGED <<now, fsmVars, histVars, engineVars, codecVars, scheduleVars,
                pidVars, wireVars, snapshotVars, cameraVars, setterVars,
                smLockVars, ctl_pc, laser_pos, current_alt, current_state,
                throttle_output, last_laser_time, telemetry_data, sent, op_pc,
                op_state, telLocals>>

\* a POST /param arrives
ParamRequest ==
    /\ par_steps = <<>>
    /\ \E data \in ParamRequests : par_steps' = set_param(data)
    /\ UNCHANGED <<pid_x, pid_y, roll_output, pitch_output, axis_pc, axis_gains>>
    /\ GainRest

\* set_param makes its next set_gains call
ParamSetGains ==
    /\ par_steps # <<>>
    /\ LET c == Head(par_steps)
       IN  /\ pid_x' = IF c.pid = "x" THEN set_gains(pid_x, c.kp, c.ki, c.kd) ELSE pid_x
           /\ pid_y' = IF c.pid = "y" THEN set_gains(pid_y, c.kp, c.ki, c.kd) ELSE pid_y
    /\ par_steps' = Tail(par_steps)
    /\ UNCHANGED <<roll_output, pitch_output, axis_pc, axis_gains>>
    /\ GainRest

\* control_loop: roll_output = pid_x.compute(error_x)
AxisRoll ==
    /\ axis_pc = "roll"
    /\ LET r == pid_compute(pid_x, norm_error(1092, CAMERA_RES_X), None, now)
       IN  /\ pid_x' = r.pid
           /\ roll_output' = r.output
    /\ axis_gains' = <<Gains(pid_x)>>
    /\ axis_pc' = "pitch"
    /\ UNCHANGED <<pid_y, pitch_output, par_steps>>
    /\ GainRest

\* control_loop: pitch_output = pid_y.compute(error_y)
AxisPitch ==
    /\ axis_pc = "pitch"
    /\ LET r == pid_compute(pid_y, norm_error(272, CAMERA_RES_Y), None, now)
       IN  /\ pid_y' = r.pid
           /\ pitch_output' = r.output
    /\ axis_gains' = Append(axis_gains, Gains(pid_y))
    /\ axis_pc' = "roll"
    /\ UNCHANGED <<pid_x, roll_output, par_steps>>
    /\ GainRest

NextGain == ParamRequest \/ ParamSetGains \/ AxisRoll \/ AxisPitch

SpecGain == Init /\ [][NextGain]_vars

\* ------------------------------------------------------------------------
\* Properties of the state machine
\* ------------------------------------------------------------------------

\* The rows of the transition table, by the operation that may take them
TableRows ==
    {<<"SEARCHING", "TRACKING">>, <<"TRACKING", "SEARCHING">>,
     <<"TRACKING", "APPROACH">>, <<"APPROACH", "LANDING">>,
     <<"APPROACH", "LOST">>, <<"LANDING", "COMPLETE">>,
     <<"LANDING", "LOST">>, <<"LOST", "TRACKING">>}

RowAllowed(op, pair) ==
    CASE op = "enable" -> pair = <<"IDLE", "SEARCHING">>
      [] op = "disable" -> pair[2] = "IDLE"
      [] op = "update" -> pair \in TableRows
      [] OTHER -> FALSE

\* C1: every phase change the machine records (each old->new pair of the
\* last operation) is a row of the transition table: IDLE->SEARCHING by
\* enable(), one of the eight update() rows, or any->IDLE by disable().
C1_OnlyTableTransitions ==
    \A i \in 1..Len(changes) : RowAllowed(lastOp, changes[i])

\* C2: in a run started by enable() in IDLE in which every update() reported
\* the beacon detected, the first update() moved SEARCHING to TRACKING, the
\* machine is not in APPROACH (it is still TRACKING) as long as no update()
\* was made detection_time or more after the first detected one, and it is
\* in APPROACH after the first update() made that late.
C2_ConfirmAfterDetectionTime ==
    (run.active /\ run.allDetected /\ run.updates >= 1) =>
        /\ (run.updates = 1 /\ lastOp = "update") =>
               (opFrom = "SEARCHING" /\ state = "TRACKING")
        /\ (run.late = 0) => (state = "TRACKING")
        /\ (run.late = 1) => (state = "APPROACH")

\* C2 witness: the confirming update was made exactly detection_time after
\* the first detected update of an all-detected run.
C2_Witness ==
    /\ run.active /\ run.allDetected /\ run.late = 1
    /\ lastOp = "update" /\ opFrom = "TRACKING" /\ state = "APPROACH"
    /\ opArgs.now - run.firstDet = LASER_DETECTION_TIME

\* C3 as stated: in an all-detected run, an update() that reports
\* altitude <= landing_height while the machine is in TRACKING or APPROACH
\* leaves it in LANDING.
C3_LandingFromTrackingToo ==
    (/\ run.active /\ run.allDetected /\ lastOp = "update"
     /\ opFrom \in {"TRACKING", "APPROACH"}
     /\ opArgs.altitude <= LANDING_THRESHOLD_HEIGHT)
        => state = "LANDING"

\* C3 as amended: in an all-detected run, an update() that reports
\* altitude <= landing_height leaves the machine in LANDING when it was made
\* in APPROACH; made in TRACKING it never enters LANDING: the machine stays
\* in TRACKING until detection_time has elapsed and then moves to APPROACH.
C3_LandingOnlyFromApproach ==
    (/\ run.active /\ run.allDetected /\ lastOp = "update"
     /\ opArgs.altitude <= LANDING_THRESHOLD_HEIGHT)
        => /\ (opFrom = "APPROACH") => (state = "LANDING")
           /\ (opFrom = "TRACKING") =>
                  (state = IF opArgs.now - run.firstDet >= LASER_DETECTION_TIME
                           THEN "APPROACH" ELSE "TRACKING")

\* C3 witness: an update() made in APPROACH reported exactly landing_height
\* in an all-detected run and the machine is in LANDING.
C3_Witness ==
    /\ run.active /\ run.allDetected /\ lastOp = "update"
    /\ opFrom = "APPROACH" /\ state = "LANDING"
    /\ opArgs.altitude = LANDING_THRESHOLD_HEIGHT

\* C4: an update() made in APPROACH that reports the beacon not detected
\* leaves the machine in APPROACH while now - laser_last_seen < lost_timeout
\* and in LOST once now - laser_last_seen >= lost_timeout; an update() made
\* in LOST with the beacon detected leaves it in TRACKING, and no update()
\* made in LOST leaves it in APPROACH.
C4_LostAfterTimeoutThenTracking ==
    (lastOp = "update") =>
        /\ (opFrom = "APPROACH" /\ ~opArgs.laser_detected) =>
               (state = IF opArgs.now - laser_last_seen < LASER_LOST_TIMEOUT
                        THEN "APPROACH" ELSE "LOST")
        /\ (opFrom = "LOST") =>
               (state = IF opArgs.laser_detected THEN "TRACKING" ELSE "LOST")

\* C4 witness: the beacon was withheld in APPROACH for exactly lost_timeout
\* and the machine is in LOST.
C4_Witness ==
    /\ lastOp = "update" /\ opFrom = "APPROACH" /\ state = "LOST"
    /\ ~opArgs.laser_detected
    /\ opArgs.now - laser_last_seen = LASER_LOST_TIMEOUT

\* C5: an update() made in LANDING that reports altitude <= the touchdown
\* threshold leaves the machine in COMPLETE, whatever the beacon visibility.
C5_TouchdownCompletes ==
    (lastOp = "update" /\ opFrom = "LANDING" /\ opArgs.altitude <= TOUCHDOWN_HEIGHT)
        => state = "COMPLETE"

\* C6: after disable() the machine is in IDLE with both beacon timers 0 and
\* no stored beacon position, whatever preceded it.
C6_DisableClearsEverything ==
    (lastOp = "disable") =>
        /\ state = "IDLE"
        /\ laser_first_seen = 0
        /\ laser_last_seen = 0
        /\ laser_position = None

\* C6 witness: disable() was called in APPROACH, where both timers were set.
C6_Witness ==
    /\ lastOp = "disable" /\ opFrom = "APPROACH" /\ state = "IDLE"
    /\ prev_state = "APPROACH"


\* C29: an update() that takes the machine into APPROACH was made in
\* TRACKING, every update() since the machine last entered TRACKING (the
\* entering one included) reported the beacon detected, and at least
\* detection_time passed since that entry; an undetected update() in
\* TRACKING sends the machine back to SEARCHING with the timers cleared; and
\* an update() that recovers from LOST restarts the first-seen timer at its
\* own instant.
C29_ApproachOnlyAfterConfirmation ==
    (lastOp = "update") =>
        /\ (opFrom # "APPROACH" /\ state = "APPROACH") =>
               /\ opFrom = "TRACKING"
               /\ track.allDetected
               /\ opArgs.now - track.entered >= LASER_DETECTION_TIME
        /\ (opFrom = "TRACKING" /\ ~opArgs.laser_detected) =>
               /\ state = "SEARCHING"
               /\ laser_first_seen = 0
               /\ laser_last_seen = 0
        /\ (opFrom = "LOST" /\ state = "TRACKING") =>
               /\ laser_first_seen = opArgs.now
               /\ track.entered = opArgs.now

\* C29 witness: the machine was confirmed once, lost the beacon for
\* lost_timeout, found it again in LOST and entered APPROACH again exactly
\* detection_time after that recovery.
C29_Witness ==
    /\ lastOp = "update" /\ opFrom = "TRACKING" /\ state = "APPROACH"
    /\ run.active /\ ~run.allDetected
    /\ track.from = "LOST"
    /\ track.allDetected
    /\ track.entered >= run.firstDet + LASER_DETECTION_TIME + LASER_LOST_TIMEOUT
    /\ opArgs.now - track.entered = LASER_DETECTION_TIME

\* the operations that can change the phase
PhaseOperations == {"enable", "disable", "update"}

\* the phases the last operation went through, from its (old, new) pairs
ChangesChain ==
    /\ changes # <<>> => changes[1][1] = opFrom /\ changes[Len(changes)][2] = state
    /\ \A i \in 1..Len(changes) - 1 : changes[i][2] = changes[i + 1][1]

\* C30: every phase change records the entry timestamp, and with a handler
\* registered each phase change of an operation invokes it exactly once
\* with that change's (old, new), old # new, in order; an operation that
\* leaves the phase as it was (disable() in IDLE, enable() outside IDLE,
\* update() with no transition) invokes nothing; an exception the handler
\* raises is caught, and the phase change stands.
C30_HandlerOncePerChange ==
    /\ [](lastOp \in PhaseOperations =>
            /\ ChangesChain
            /\ (changes = <<>>) => (state = opFrom /\ calls = <<>>)
            /\ (on_state_change = None) => calls = <<>>
            /\ (on_state_change # None) =>
                   /\ Len(calls) = Len(changes)
                   /\ \A i \in 1..Len(calls) :
                          /\ <<calls[i].old, calls[i].new>> = changes[i]
                          /\ calls[i].old # calls[i].new
                          /\ calls[i].outcome =
                                 IF on_state_change = Some("raises")
                                 THEN "caught" ELSE "returned")
    /\ [][state' # state => state_enter_time' = now]_vars

\* C30 witness: with a raising handler registered an update() changed the
\* phase, the handler was called for the change, its exception was caught
\* and the machine is in the new phase with the entry timestamp of that
\* update().
C30_Witness ==
    /\ lastOp = "update"
    /\ on_state_change = Some("raises")
    /\ calls # <<>>
    /\ calls[Len(calls)].outcome = "caught"
    /\ calls[Len(calls)].new = state
    /\ state # opFrom
    /\ state_enter_time = opArgs.now

\* C34: an update() makes at most one phase change, and the phase after
\* the call is the target of that change (the phase is as before when there
\* was none); no update() goes through COMPLETE to another phase.
C34_OneChangePerUpdate ==
    (lastOp = "update") =>
        /\ Len(changes) <= 1
        /\ (changes = <<>>) => state = opFrom
        /\ (changes # <<>>) => changes[1] = <<opFrom, state>>
        /\ \A i \in 1..Len(changes) - 1 : changes[i][2] # "COMPLETE"

\* C35: an update() or enable() made in COMPLETE leaves the machine in
\* COMPLETE without any phase change, whatever the arguments; a disable()
\* made in COMPLETE takes it to IDLE.
C35_CompleteIsAbsorbing ==
    (opFrom = "COMPLETE") =>
        /\ (lastOp \in {"update", "enable"}) => (state = "COMPLETE" /\ changes = <<>>)
        /\ (lastOp = "disable") => (state = "IDLE" /\ changes = <<<<"COMPLETE", "IDLE">>>>)
        /\ (lastOp = "set_on_state_change") => state = "COMPLETE"

\* C35 witness: an update() made in COMPLETE reported the beacon undetected
\* lost_timeout or more after it was last seen, above the touchdown height,
\* and the machine is still in COMPLETE.
C35_Witness ==
    /\ lastOp = "update" /\ opFrom = "COMPLETE" /\ state = "COMPLETE"
    /\ ~opArgs.laser_detected
    /\ laser_last_seen > 0
    /\ opArgs.now - laser_last_seen >= LASER_LOST_TIMEOUT
    /\ opArgs.altitude > TOUCHDOWN_HEIGHT

\* C37: after every completed enable(), disable() or update(), SEARCHING
\* implies both beacon timers are 0, and TRACKING, APPROACH or LANDING
\* implies laser_first_seen > 0 and laser_last_seen >= laser_first_seen.
C37_TimersByPhase ==
    (lastOp \in PhaseOperations) =>
        /\ (state = "SEARCHING") => (laser_first_seen = 0 /\ laser_last_seen = 0)
        /\ (state \in {"TRACKING", "APPROACH", "LANDING"}) =>
               (laser_first_seen > 0 /\ laser_last_seen >= laser_first_seen)

\* C37 witness: the machine is in LANDING after an update() that did not
\* detect the beacon, which was last seen later than it was first seen.
C37_Witness ==
    /\ lastOp = "update" /\ state = "LANDING"
    /\ ~opArgs.laser_detected
    /\ laser_first_seen > 0
    /\ laser_last_seen > laser_first_seen

\* C36: an enable() made in a phase other than IDLE changes nothing: phase,
\* previous phase, both beacon timers, the stored position and the entry
\* timestamp are as before and the handler is not called; an enable() made
\* in IDLE clears the timers and the stored position and moves the machine
\* to SEARCHING.
C36_EnableOnlyActsInIdle ==
    [][(lastOp' = "enable" /\ now' = now) =>
          IF state # "IDLE"
          THEN /\ state' = state
               /\ prev_state' = prev_state
               /\ laser_first_seen' = laser_first_seen
               /\ laser_last_seen' = laser_last_seen
               /\ laser_position' = laser_position
               /\ state_enter_time' = state_enter_time
               /\ changes' = <<>>
               /\ calls' = <<>>
          ELSE /\ state' = "SEARCHING"
               /\ laser_first_seen' = 0
               /\ laser_last_seen' = 0
               /\ laser_position' = None
               /\ changes' = <<<<"IDLE", "SEARCHING">>>>]_vars

\* C36 witness: enable() was called in LANDING with a handler registered,
\* a stored beacon position and running timers; the machine is in LANDING
\* and the handler was not called.
C36_Witness ==
    /\ lastOp = "enable" /\ opFrom = "LANDING" /\ state = "LANDING"
    /\ on_state_change # None
    /\ calls = <<>>
    /\ laser_first_seen > 0
    /\ laser_position # None

\* ------------------------------------------------------------------------
\* Properties of the control loop (SpecLoop)
\* ------------------------------------------------------------------------

\* C7: while the system is enabled, every iteration of the control loop
\* transmits a command: when an iteration has ended (the loop is back at
\* its capture step) and the phase it acted on was not IDLE, it has sent at
\* least one frame.
C7_EveryEnabledIterationTransmits ==
    (ctl_pc = "capture" /\ current_state # "IDLE") => Len(sent) >= 1

\* C10: no command is transmitted while the machine is IDLE: every frame
\* the control loop sends goes out at an instant when the machine's phase
\* is not IDLE, also when disable() runs between the loop's reading of the
\* phase and its send.
C10_NoFrameWhileIdle ==
    \A i \in 1..Len(sent) : sent[i].machine_state # "IDLE"

\* ------------------------------------------------------------------------
\* Properties of the engine (SpecEngine, SpecEngineLive)
\* ------------------------------------------------------------------------

\* C8: every operation on a connected engine returns: a caller that has
\* started an operation is eventually back outside the engine, so no thread
\* waits on the engine's mutex forever.
C8_EveryOperationReturns ==
    \A th \in Callers : (eng_pc[th] # "idle") ~> (eng_pc[th] = "idle")

\* ------------------------------------------------------------------------
\* Properties of send_rc_override (SpecCodec)
\* ------------------------------------------------------------------------

\* the value the claim expects in channel i for the arguments given
ExpectedChannel(args, i) ==
    IF i > 8 THEN 1500
    ELSE IF args[i] < 1000 THEN 1000
    ELSE IF args[i] > 2000 THEN 2000
    ELSE args[i]

\* C11: whatever the eight arguments, the payload of send_rc_override is
\* exactly 36 bytes; decoded as 18 little-endian unsigned 16-bit values it
\* gives the arguments clamped to [1000, 2000] in the order roll, pitch,
\* throttle, yaw, aux1..aux4 followed by ten times 1500; encoding the
\* decoded values gives the same bytes, and no value outside [1000, 2000]
\* is in the payload.
C11_PayloadIsClampedChannels ==
    rc_args # None =>
        /\ Len(rc_payload) = 36
        /\ \A k \in 1..Len(rc_payload) : rc_payload[k] \in 0..255
        /\ LET decoded == unpack_channels(rc_payload)
           IN  /\ Len(decoded) = 18
               /\ \A i \in 1..Len(decoded) :
                     /\ decoded[i] = ExpectedChannel(rc_args, i)
                     /\ decoded[i] >= 1000 /\ decoded[i] <= 2000
               /\ pack_channels(decoded) = rc_payload

\* a call with arguments below, inside and above the range, among them a
\* value that does not fit 16 bits
C11_Witness ==
    /\ rc_args = <<999, 2001, 1000, 65536, 70000, -1, 1234, 1999>>
    /\ Len(rc_payload) = 36
    /\ unpack_channels(rc_payload)[1] = 1000
    /\ unpack_channels(rc_payload)[5] = 2000
    /\ unpack_channels(rc_payload)[7] = 1234


\* ------------------------------------------------------------------------
\* Properties of the commands of the control loop (SpecLoop)
\* ------------------------------------------------------------------------

\* 1500 + output x RC_RANGE as an integer RC value, limited to [1000, 2000]
ExpectedRc(output) ==
    LET v == (1500 * OUT_SCALE + output * RC_RANGE) \div OUT_SCALE
    IN  IF v < 1000 THEN 1000 ELSE IF v > 2000 THEN 2000 ELSE v

\* roll, pitch, throttle and yaw of the frame an iteration sent
Command(frame) == <<frame.channels[1], frame.channels[2], frame.channels[3],
                    frame.channels[4]>>

\* C12: when an iteration has ended, what it sent is fixed by the phase it
\* read after update(): nothing in IDLE; 1500 on all four channels in
\* SEARCHING and LOST; roll = pitch = yaw = 1500 and throttle
\* 1500 - MIN_DESCENT_SPEED x RC_RANGE in LANDING; 1500 + output x RC_RANGE
\* limited to [1000, 2000] on roll, pitch and throttle with yaw 1500 in
\* TRACKING and APPROACH; never more than one frame.
C12_CommandByPhase ==
    ctl_pc = "capture" =>
        /\ Len(sent) <= 1
        /\ current_state = "IDLE" => sent = <<>>
        /\ current_state \in {"SEARCHING", "LOST"} =>
              Len(sent) = 1 /\ Command(sent[1]) = <<1500, 1500, 1500, 1500>>
        /\ current_state = "LANDING" =>
              /\ Len(sent) = 1
              /\ Command(sent[1]) =
                    <<1500, 1500,
                      1500 - (MIN_DESCENT_SPEED * RC_RANGE) \div OUT_SCALE, 1500>>
        /\ current_state \in {"TRACKING", "APPROACH"} =>
              /\ Len(sent) = 1
              /\ Command(sent[1]) =
                    <<ExpectedRc(roll_output), ExpectedRc(pitch_output),
                      ExpectedRc(throttle_output), 1500>>

\* C12 witness: the beacon was confirmed in APPROACH and then lost for
\* lost_timeout; the iteration whose update() took the machine to LOST has
\* read LOST, sent the neutral command and ended
C12_Witness ==
    /\ ctl_pc = "capture"
    /\ current_state = "LOST"
    /\ state = "LOST" /\ prev_state = "APPROACH"
    /\ Len(sent) = 1
    /\ sent[1].machine_state = "LOST"
    /\ Command(sent[1]) = <<1500, 1500, 1500, 1500>>


\* C13: an iteration whose frame gave no beacon position sends, if it sends
\* at all, roll = pitch = 1500, whatever the phase and whatever the
\* controllers computed in earlier iterations.
C13_NoPositionNeutralAxes ==
    (ctl_pc = "capture" /\ laser_pos = None) =>
        \A i \in 1..Len(sent) :
            sent[i].channels[1] = 1500 /\ sent[i].channels[2] = 1500

\* an iteration in APPROACH without a beacon position has sent a frame,
\* after an iteration in which the controllers saw a non-zero error
C13_Witness ==
    /\ ctl_pc = "capture"
    /\ laser_pos = None
    /\ current_state = "APPROACH"
    /\ Len(sent) = 1
    /\ pid_x.prev_error # 0
    /\ pid_y.prev_error # 0


\* the controller is as reset() leaves it
IsReset(pid) == pid = pid_reset(pid)

\* C16: after a transition that breaks tracking continuity both axis
\* controllers are reset before their next compute(): when the iteration
\* whose update() took the machine from SEARCHING (entered from TRACKING
\* or after a disable()) to TRACKING is about to compute, neither controller
\* holds integral, previous-error, previous-measurement or timestamp state.
C16_ResetBeforeComputeAfterBreak ==
    (/\ ctl_pc = "command"
     /\ current_state = "TRACKING"
     /\ laser_pos # None
     /\ changes = <<<<"SEARCHING", "TRACKING">>>>) =>
        IsReset(pid_x) /\ IsReset(pid_y)


\* ------------------------------------------------------------------------
\* Properties of the descent schedule (SpecSchedule)
\* ------------------------------------------------------------------------

\* the commanded descent rate of an evaluation (a downward rate is a
\* negative throttle output)
DescentRate(call) == -call.throttle_output

\* C14: with the beacon detected in a tracking phase and the altitude
\* exactly PRECISION_START_HEIGHT, the iteration commands no descent: the
\* schedule gives a descent rate of 0 and the throttle sent is the neutral
\* 1500.
C14_BoundaryNoDescent ==
    \A i \in 1..Len(descent_calls) :
        descent_calls[i].altitude = PRECISION_START_HEIGHT =>
            /\ DescentRate(descent_calls[i]) = 0
            /\ rc_value(descent_calls[i].throttle_output) = 1500

\* C15: the commanded descent rate is 0 above PRECISION_START_HEIGHT and
\* MIN_DESCENT_SPEED at or below LANDING_THRESHOLD_HEIGHT; between the two
\* heights it lies between MIN_DESCENT_SPEED and MAX_DESCENT_SPEED, and of
\* two altitudes below PRECISION_START_HEIGHT the lower one never gets the
\* larger rate: the descent slows down as the altitude decreases.
C15_DescentSlowsDown ==
    /\ \A i \in 1..Len(descent_calls) :
          LET c == descent_calls[i]
          IN  /\ c.altitude > PRECISION_START_HEIGHT => DescentRate(c) = 0
              /\ c.altitude <= LANDING_THRESHOLD_HEIGHT =>
                    DescentRate(c) = MIN_DESCENT_SPEED
              /\ (c.altitude > LANDING_THRESHOLD_HEIGHT
                  /\ c.altitude < PRECISION_START_HEIGHT) =>
                    /\ DescentRate(c) >= MIN_DESCENT_SPEED
                    /\ DescentRate(c) <= MAX_DESCENT_SPEED
    /\ \A i \in 1..Len(descent_calls) : \A j \in 1..Len(descent_calls) :
          (/\ descent_calls[i].altitude <= descent_calls[j].altitude
           /\ descent_calls[j].altitude < PRECISION_START_HEIGHT) =>
              DescentRate(descent_calls[i]) <= DescentRate(descent_calls[j])


\* ------------------------------------------------------------------------
\* Properties of a controller (SpecPid)
\* ------------------------------------------------------------------------

\* the last compute() call
Call == ctrl_call[1]

\* v limited to [lo, hi]
Limit(v, lo, hi) == IF v < lo THEN lo ELSE IF v > hi THEN hi ELSE v

\* C17: whatever calls were made on the controller, the value compute()
\* returns lies between output_min and output_max as they were configured
\* when compute() was called.
C17_OutputWithinLimits ==
    ctrl_call # None =>
        /\ Call.output >= Call.before.output_min
        /\ Call.output <= Call.before.output_max

\* a controller constructed as main() does, with limits changed by
\* set_output_limits, has returned the upper limit for a large error
C17_Witness ==
    /\ ctrl_call # None
    /\ ctrl_args = MainArgs
    /\ Call.before.output_min = -3000
    /\ Call.before.output_max = 6000
    /\ Call.error = 24000
    /\ Call.output = 6000

\* C18 as claimed: in every compute() with Ki # 0 the accumulator compute()
\* leaves, which is the one that enters its output, lies in
\* [-integral_max, +integral_max], also on the first compute() after
\* set_integral_max() lowered the limit; with Ki = 0 compute() does not
\* change the accumulator.  A controller constructed with a negative
\* integral_max keeps it (only set_integral_max stores the magnitude), the
\* interval is empty, and _clamp leaves the accumulator at -integral_max.
C18_IntegralWithinLimit ==
    ctrl_call # None =>
        /\ Call.before.ki # 0 =>
              /\ Call.after.integral >= -Call.before.integral_max
              /\ Call.after.integral <= Call.before.integral_max
        /\ Call.before.ki = 0 => Call.after.integral = Call.before.integral

\* C19 as claimed: a controller with Ki = Kd = 0 returns
\* clamp(Kp x error, output_min, output_max) on every call.
C19_ProportionalOnly ==
    (ctrl_call # None /\ Call.before.ki = 0 /\ Call.before.kd = 0) =>
        Call.output = Limit(Div(Call.before.kp * Call.error, GAIN_SCALE),
                            Call.before.output_min, Call.before.output_max)

\* C19, amended: a controller with Ki = Kd = 0 returns
\* clamp(Kp x e, output_min, output_max) on every call, whatever calls
\* preceded it, where e is the error for a controller without the reverse
\* flag and the negated error for a controller with it.
C19_ProportionalOnlySigned ==
    (ctrl_call # None /\ Call.before.ki = 0 /\ Call.before.kd = 0) =>
        Call.output =
            Limit(Div(Call.before.kp * (IF Call.before.reverse THEN -Call.error
                                                               ELSE Call.error),
                      GAIN_SCALE),
                  Call.before.output_min, Call.before.output_max)

\* a second compute() with Ki = Kd = 0 on a controller that still holds an
\* accumulator and a previous error from a call made with other gains
C19_Witness ==
    /\ ctrl_call # None
    /\ Call.n = 2
    /\ Call.before.ki = 0
    /\ Call.before.kd = 0
    /\ Call.before.integral # 0
    /\ Call.before.prev_error # 0
    /\ Call.error = 6000
    /\ Call.output = 12000

\* the configuration of two controllers is the same
SameConfig(p, q) ==
    /\ p.kp = q.kp /\ p.ki = q.ki /\ p.kd = q.kd
    /\ p.output_min = q.output_min /\ p.output_max = q.output_max
    /\ p.integral_max = q.integral_max
    /\ p.sample_time = q.sample_time /\ p.reverse = q.reverse

\* C20: a compute(e) that follows a reset() made after earlier compute()
\* calls returns what a controller freshly constructed with the same
\* arguments returns for compute(e) as its first call.
C20_ResetThenComputeAsFresh ==
    (/\ ctrl_call # None
     /\ Call.n >= 2
     /\ IsReset(Call.before)
     /\ SameConfig(Call.before, PIDController(ctrl_args))) =>
        Call.output = pid_compute(PIDController(ctrl_args), Call.error,
                                  Call.measurement, Call.t).output

\* a controller with all three terms computed, was reset and computed again
\* at a later clock reading
C20_Witness ==
    /\ ctrl_call # None
    /\ Call.n = 2
    /\ IsReset(Call.before)
    /\ SameConfig(Call.before, PIDController(ctrl_args))
    /\ Call.before.ki # 0
    /\ Call.before.kd # 0
    /\ Call.t > 1
    /\ Call.error = 6000
    /\ Call.output = 6300

\* ------------------------------------------------------------------------
\* Properties of the checksum (SpecCrc)
\* ------------------------------------------------------------------------

\* CRC-8/DVB-S2 by its definition: the remainder of the message, taken as a
\* polynomial over GF(2) with the most significant bit of the first byte as
\* the leading coefficient and multiplied by x^8, on division by
\* x^8 + x^7 + x^6 + x^4 + x^2 + 1 (0xD5 with the leading term), with
\* initial value 0 and no final XOR.
Divisor == <<1, 1, 1, 0, 1, 0, 1, 0, 1>>

ByteBits(b) == [i \in 1..8 |-> (b \div (2 ^ (8 - i))) % 2]

\* long division: the divisor is subtracted wherever the leading coefficient
\* left at position i is 1; the last eight bits of the result are the
\* remainder
RECURSIVE Divide(_, _)
Divide(bits, i) ==
    IF i > Len(bits) - 8 THEN bits
    ELSE Divide(IF bits[i] = 1
                THEN SubSeq(bits, 1, i - 1)
                     \o [k \in 1..9 |-> (bits[i + k - 1] + Divisor[k]) % 2]
                     \o SubSeq(bits, i + 9, Len(bits))
                ELSE bits,
                i + 1)

Last8(bits) == SubSeq(bits, Len(bits) - 7, Len(bits))

\* the remainder of the polynomial whose coefficients are the bits of data;
\* a polynomial and its remainder leave the same remainder after eight more
\* coefficients are appended, so the bytes are taken in one at a time
RECURSIVE Remainder(_)
Remainder(data) ==
    IF data = <<>> THEN <<0, 0, 0, 0, 0, 0, 0, 0>>
    ELSE Last8(Divide(Remainder(SubSeq(data, 1, Len(data) - 1))
                      \o ByteBits(data[Len(data)]), 1))

RECURSIVE BitsValue(_)
BitsValue(bits) ==
    IF bits = <<>> THEN 0
    ELSE 2 * BitsValue(SubSeq(bits, 1, Len(bits) - 1)) + bits[Len(bits)]

\* the remainder of the message multiplied by x^8
ReferenceCrc(data) ==
    BitsValue(Last8(Divide(Remainder(data) \o <<0, 0, 0, 0, 0, 0, 0, 0>>, 1)))

\* C23: every checksum computed is a value in 0..255 equal to the reference
\* CRC-8/DVB-S2 of its input (polynomial 0xD5, initial value 0, most
\* significant bit first, no final XOR); the empty input gives 0; and two
\* computations on the same bytes give the same value.
C23_ChecksumIsCrc8DvbS2 ==
    /\ \A i \in 1..Len(crc_calls) :
          /\ crc_calls[i].crc \in 0..255
          /\ crc_calls[i].crc = ReferenceCrc(crc_calls[i].data)
          /\ (crc_calls[i].data = <<>>) => (crc_calls[i].crc = 0)
    /\ \A i, j \in 1..Len(crc_calls) :
          (crc_calls[i].data = crc_calls[j].data) =>
              (crc_calls[i].crc = crc_calls[j].crc)

\* C23 witness: the checksum of "123456789" was computed twice and gave the
\* published check value 0xBC of CRC-8/DVB-S2 both times.
C23_Witness ==
    /\ Len(crc_calls) = 2
    /\ crc_calls[1].data = CheckString
    /\ crc_calls[2].data = CheckString
    /\ crc_calls[1].crc = 188
    /\ crc_calls[2].crc = 188

\* ------------------------------------------------------------------------
\* Properties of the frames built (SpecFrame)
\* ------------------------------------------------------------------------

\* C22: the frame built for (function, payload) is 0x24, 0x58, 0x3C, flag
\* 0x00, the function as u16 little-endian, len(payload) as u16
\* little-endian, the payload, and one checksum byte computed over flag,
\* function, length and payload only; it is 9 + len(payload) bytes long; and
\* a response carrying the same flag, function, length, payload and checksum
\* is accepted by _parse_msp_v2_response, which returns (function, payload).
C22_FrameLayout ==
    (frame_call # None) =>
        LET c == frame_call[1]
            f == c.frame
            n == Len(c.payload)
        IN  /\ Len(f) = 9 + n
            /\ SubSeq(f, 1, 4) = <<36, 88, 60, 0>>
            /\ f[5] = c.function % 256 /\ f[6] = c.function \div 256
            /\ f[7] = n % 256 /\ f[8] = n \div 256
            /\ SubSeq(f, 9, 8 + n) = c.payload
            /\ f[9 + n] = calculate_crc8_dvb_s2(SubSeq(f, 4, 8 + n))
            /\ parse_msp_v2_response(ResponseOf(f)) =
                   [result |-> Some(<<c.function, c.payload>>),
                    error_count |-> 0, rx_count |-> 1]

\* C22 witness: a frame was built for function 0x1234 with a payload of 300
\* bytes, so that both u16 fields use both of their bytes.
C22_Witness ==
    /\ frame_call # None
    /\ frame_call[1].function = 4660
    /\ Len(frame_call[1].payload) = 300
    /\ Len(frame_call[1].frame) = 309
    /\ SubSeq(frame_call[1].frame, 5, 8) = <<52, 18, 44, 1>>

\* ------------------------------------------------------------------------
\* Properties of the responses read (SpecParse)
\* ------------------------------------------------------------------------

\* the bytes s hold, from position i on, a response frame carrying function
\* and payload whose checksum byte is the checksum of its flag, function,
\* length and payload
GoodFrameAt(s, i, function, payload) ==
    LET n == Len(payload)
    IN  /\ i + 8 + n <= Len(s)
        /\ SubSeq(s, i, i + 2) = <<36, 88, 62>>
        /\ SubSeq(s, i + 4, i + 7) = pack_H(function) \o pack_H(n)
        /\ SubSeq(s, i + 8, i + 7 + n) = payload
        /\ s[i + 8 + n] = calculate_crc8_dvb_s2(SubSeq(s, i + 3, i + 7 + n))

\* C21: every read of a response that fails (a truncated or malformed
\* frame, a checksum mismatch, an error-direction frame, a read timeout)
\* returns None and adds one to the error counter; and a payload is returned
\* only from a frame whose received checksum equals the computed one.
C21_FailedReadCountsAnError ==
    (resp_call # None) =>
        LET c == resp_call[1]
        IN  /\ (c.result = None) => (c.error_after = c.error_before + 1)
            /\ (c.result # None) =>
                   \E i \in 1..Len(c.stream) :
                       GoodFrameAt(c.stream, i, c.result[1][1], c.result[1][2])

\* ------------------------------------------------------------------------
\* Properties of the snapshot (SpecSnapshot)
\* ------------------------------------------------------------------------

\* the fields of the snapshot the control loop writes
ControlFields == {"laser_pos", "laser_detected", "system_state", "pid_output",
                  "rc_channels"}

\* C24: a telemetry iteration whose altitude request returned no data leaves
\* the snapshot's altitude at its previous value, one whose status request
\* returned no data leaves armed and mode at their previous values, and no
\* telemetry iteration changes laser_pos, laser_detected, system_state,
\* pid_output or rc_channels.
C24_NoDataKeepsSnapshot ==
    (tel_call # None) =>
        LET c == tel_call[1]
        IN  /\ (c.altitude = None) => (c.after.altitude = c.before.altitude)
            /\ (c.armed = None) =>
                   (c.after.armed = c.before.armed /\ c.after.mode = c.before.mode)
            /\ \A f \in ControlFields : c.after[f] = c.before[f]

\* C24 witness: both requests returned no data while the snapshot held an
\* altitude of 15 m, an armed flight controller and a published iteration.
C24_Witness ==
    /\ tel_call # None
    /\ tel_call[1].altitude = None /\ tel_call[1].armed = None
    /\ tel_call[1].before.altitude = 1500 /\ tel_call[1].after.altitude = 1500
    /\ tel_call[1].before.armed /\ tel_call[1].after.armed
    /\ tel_call[1].after.mode = "ARMED"
    /\ tel_call[1].after.system_state = "TRACKING"
    /\ tel_call[1].after.laser_pos = <<1092, 272>>

\* ------------------------------------------------------------------------
\* Properties of the snapshot the control loop publishes (SpecLoop)
\* ------------------------------------------------------------------------

\* C25: when an iteration that transmitted a frame has ended, the
\* snapshot's rc_channels are the roll, pitch, throttle and yaw values of
\* the frame it transmitted.
C25_SnapshotHoldsTransmitted ==
    (ctl_pc = "capture" /\ Len(sent) = 1) =>
        telemetry_data.rc_channels = Command(sent[1])

\* C26: an iteration whose camera capture returned None leaves the flight
\* phase and the beacon timers of the state machine as they were: the step
\* of the iteration that calls update() changes neither the phase nor the
\* first-seen and last-seen times.
C26_NoFrameIsSkippedCycle ==
    [][(ctl_pc = "update" /\ ctl_pc' = "get_state" /\ camera_frame = "none") =>
           (/\ state' = state
            /\ laser_first_seen' = laser_first_seen
            /\ laser_last_seen' = laser_last_seen)]_vars

\* ------------------------------------------------------------------------
\* Properties of the loops as callers of the engine (SpecEngineLive)
\* ------------------------------------------------------------------------

\* the threads that run a loop: control_loop and telemetry_loop
LoopCallers == {"control", "telemetry"}

\* C27: whatever happens inside an iteration of the control loop or of the
\* telemetry loop (a send that fails, a request that returns no data), the
\* iteration comes to its end and the loop goes round again: a loop that
\* has entered the engine is eventually back outside it holding the
\* operation's result.
C27_NextIterationFollows ==
    \A th \in LoopCallers :
        (eng_pc[th] # "idle") ~> (eng_pc[th] = "idle" /\ eng_result[th] # "none")

\* ------------------------------------------------------------------------
\* Properties of the setters of a controller (SpecSetters)
\* ------------------------------------------------------------------------

\* the arguments are ones the setter refuses
Refused(c) ==
    \/ c.op = "set_output_limits" /\ c.args[1] >= c.args[2]
    \/ c.op = "set_sample_time" /\ c.args[1] <= 0

\* C28: set_output_limits(min, max) with min >= max and set_sample_time(t)
\* with t <= 0 leave the controller as it was: limits, sample time, gains,
\* integral, previous error, previous measurement and previous timestamp
\* are what they were before the call.
C28_RefusedSetterChangesNothing ==
    (ctrl_set # None /\ Refused(ctrl_set[1])) =>
        ctrl_set[1].after = ctrl_set[1].before

\* C28 witness: set_output_limits(0.5, 0.5) was refused on a controller
\* with a sample time, an accumulated integral, a previous error, a
\* previous measurement and a previous timestamp.
C28_Witness ==
    /\ ctrl_set # None
    /\ ctrl_set[1].op = "set_output_limits"
    /\ ctrl_set[1].args = <<6000, 6000>>
    /\ ctrl_set[1].before.integral # 0
    /\ ctrl_set[1].before.prev_error # 0
    /\ ctrl_set[1].before.prev_measurement # None
    /\ ctrl_set[1].before.last_time # None
    /\ ctrl_set[1].before.sample_time # None
    /\ ctrl = ctrl_set[1].before

\* C32: as long as no altitude has been received from the flight controller
\* (the snapshot still holds the altitude the module defines, which no
\* response carries), the machine is in neither LANDING nor COMPLETE: the
\* control loop has fed it no altitude at or below the landing height while
\* it was in APPROACH or LANDING.
C32_NoLandingWithoutAltitude ==
    (telemetry_data.altitude = NewTelemetry.altitude
        /\ NewTelemetry.altitude \notin LoopAltitudes) =>
        state \notin {"LANDING", "COMPLETE"}

\* C33: when an iteration has ended, a frame sent in TRACKING carries the
\* neutral throttle 1500 whatever the altitude, and a frame with a throttle
\* below 1500 was sent in APPROACH (scheduled by altitude) or in LANDING
\* (the fixed minimum descent).
C33_DescentOnlyWhenConfirmed ==
    ctl_pc = "capture" =>
        \A i \in 1..Len(sent) :
            /\ current_state = "TRACKING" => Command(sent[i])[3] = 1500
            /\ Command(sent[i])[3] < 1500 => current_state \in {"APPROACH", "LANDING"}
            /\ current_state = "LANDING" =>
                   Command(sent[i])[3] = 1500 - (MIN_DESCENT_SPEED * RC_RANGE) \div OUT_SCALE

\* ------------------------------------------------------------------------
\* Properties of the state machine's lock (SpecSmLock)
\* ------------------------------------------------------------------------

\* C39: the handler runs with the machine's lock held by its caller; a
\* handler that calls a method of the same machine never returns from that
\* call (the lock stays held), and from then on no caller of the machine
\* gets past the lock.
C39_ReentrantHandlerBlocksAll ==
    /\ [](\A th \in SmCallers : sm_pc[th] = "handler" => sm_lock = th)
    /\ [][\A th \in SmCallers :
              sm_pc[th] = "handler" =>
                  /\ sm_pc'[th] = "handler"
                  /\ sm_lock' = th
                  /\ \A o \in SmCallers \ {th} :
                         /\ sm_pc[o] = "lock" => sm_pc'[o] = "lock"
                         /\ sm_pc'[o] \in {"idle", "lock"}
                  /\ UNCHANGED <<state, prev_state, laser_first_seen, laser_last_seen,
                               state_enter_time, laser_position, altitude>>]_vars

\* C39 witness: the control thread's update() in LANDING made its first
\* phase change (to COMPLETE) while no handler that calls the machine was
\* registered; such a handler was registered before the second change (to
\* LOST), was called by it and is inside a method of the machine; the
\* operator's call waits at the lock.
C39_Witness ==
    /\ sm_pc["control"] = "handler"
    /\ sm_op["control"].name = "update"
    /\ state = "LOST"
    /\ prev_state = "COMPLETE"
    /\ on_state_change = Some("calls_disable")
    /\ sm_lock = "control"
    /\ sm_pc["operator"] = "lock"
    /\ sm_op["operator"].name = "disable"

\* ------------------------------------------------------------------------
\* Properties of the runtime gain updates (SpecGain)
\* ------------------------------------------------------------------------

\* C38: when the two compute() calls of an iteration have been made, the
\* roll output and the pitch output were computed with the same gains.
C38_BothAxesSameGains ==
    (axis_pc = "roll" /\ Len(axis_gains) = 2) => axis_gains[1] = axis_gains[2]

====
